---- MODULE Spec2Model ----
(***************************************************************************)
(* Model of SWIG's C language module (Source/Modules/c.cxx): the generator *)
(* that emits flat C wrappers and the optional C++ facade, and the         *)
(* behaviour of the facade classes and of swig_check() that it generates.  *)
(*                                                                         *)
(* Text is modelled as sequences of one-character strings, so that         *)
(* concatenation, Replaceall and comparison of names are computed the way  *)
(* the code computes them.                                                 *)
(***************************************************************************)
EXTENDS Integers, Sequences, FiniteSets, TLC

VARIABLES
  \* ---- the generator (class C and cxx_class_wrapper) ----
  tree,                 \* the module's top-level nodes, with the attributes set on them
  pos,                  \* where the traversal driven by Language::top() stands
  config,               \* options read by C::main(): facade, exceptions, prefixes
  sect_wrappers_types,  \* C types section
  sect_wrappers_decl,   \* C declarations section
  sect_wrappers,        \* C implementation section
  sect_types,           \* facade: forward declarations
  sect_decls,           \* facade: class declarations
  sect_impls,           \* facade: inline implementations
  class_wrapper,        \* the live cxx_class_wrapper object, or NoWrapper
  diag,                 \* diagnostics recorded by Swig_warning / Swig_error
  \* ---- the generated facade classes at run time ----
  facades,              \* facade objects: pointer, ownership flag, class, origin
  deleted,              \* per underlying object: calls of the C delete wrapper on it
  created,              \* number of underlying objects created so far
  lastOp,               \* the facade operation that produced this state
  \* ---- the generated exception slot at run time ----
  pending,              \* SWIG_CException pending slot: 0 when empty, else exception id
  raised,               \* number of exceptions raised so far
  thrownCount,          \* per exception id: how many times swig_check() threw it
  lastCheck,            \* the last facade call: slot before its check, what it threw
  callLog,              \* the facade calls made so far, in order
  \* ---- the run of top() ----
  root,                 \* the children of the module root: imports, includes, others
  sect_runtime,         \* runtime section of the C implementation file
  run,                  \* 1 in the first run of the emitter over the tree, 2 in the second
  firstRun,             \* the sections as the first run left them
  f_wrappers_h,         \* the header file top() writes
  parsed                \* the tree as the parser left it

genVars == <<tree, pos, config, sect_wrappers_types, sect_wrappers_decl, sect_wrappers,
             sect_types, sect_decls, sect_impls, class_wrapper, diag>>
rtVars  == <<facades, deleted, created, lastOp>>
exVars  == <<pending, raised, thrownCount, lastCheck, callLog>>
topVars == <<root, sect_runtime, run, firstRun, f_wrappers_h, parsed>>
vars    == <<tree, pos, config, sect_wrappers_types, sect_wrappers_decl, sect_wrappers,
             sect_types, sect_decls, sect_impls, class_wrapper, diag,
             facades, deleted, created, lastOp,
             pending, raised, thrownCount, lastCheck, callLog,
             root, sect_runtime, run, firstRun, f_wrappers_h, parsed>>

-----------------------------------------------------------------------------
(* Text helpers (DOH string primitives used by c.cxx).                      *)

\* Strstr / strncmp(s, pat, strlen(pat)) == 0
StartsWith(s, pat) ==
  Len(s) >= Len(pat) /\ SubSeq(s, 1, Len(pat)) = pat

\* s with its first k characters dropped (Char(s) + k)
Drop(s, k) ==
  IF k >= Len(s) THEN <<>> ELSE SubSeq(s, k + 1, Len(s))

RECURSIVE Replaceall(_, _, _)
\* DOH Replaceall(s, pat, rep): every occurrence of pat, left to right
Replaceall(s, pat, rep) ==
  IF Len(s) < Len(pat) \/ Len(pat) = 0 THEN s
  ELSE IF SubSeq(s, 1, Len(pat)) = pat
       THEN rep \o Replaceall(Drop(s, Len(pat)), pat, rep)
       ELSE <<Head(s)>> \o Replaceall(Tail(s), pat, rep)

RECURSIVE Contains(_, _)
Contains(s, pat) ==
  IF Len(s) < Len(pat) THEN FALSE
  ELSE StartsWith(s, pat) \/ Contains(Tail(s), pat)

RECURSIVE JoinWith(_, _)
\* the texts of seq joined by sep
JoinWith(seq, sep) ==
  IF Len(seq) = 0 THEN <<>>
  ELSE IF Len(seq) = 1 THEN seq[1]
  ELSE seq[1] \o sep \o JoinWith(Tail(seq), sep)

\* an absent (NULL) string or node
NoStr == <<"<null>">>

-----------------------------------------------------------------------------
(* Texts used by the generator.                                             *)

S_dot      == <<".">>
S_us       == <<"_">>
S_comma    == <<",">>
S_scope    == <<":",":">>
S_ptr      == <<"p",".">>
S_ref      == <<"r",".">>
S_fn       == <<"f","(">>
S_mptr     == <<"m","(">>
S_qual     == <<"q","(">>
S_arr      == <<"a","(">>
S_rpar     == <<")">>
S_space    == <<" ">>
S_const    == <<"c","o","n","s","t">>
S_volatile == <<"v","o","l","a","t","i","l","e">>
S_qconst   == <<"q","(","c","o","n","s","t",")",".">>
S_enum     == <<"e","n","u","m"," ">>
S__const   == <<"_","c","o","n","s","t">>
S_new      == <<"n","e","w">>
S_delete   == <<"d","e","l","e","t","e">>
S_copy     == <<"c","o","p","y">>
S_self     == <<"s","e","l","f">>
S_arg      == <<"a","r","g">>
S_SwigObj  == <<"S","w","i","g","O","b","j">>
S_SWIGTYPE == <<"S","W","I","G","T","Y","P","E">>
S_star     == <<"*">>
S_carg     == <<"c","a","r","g">>
S_get      == <<"_","g","e","t">>
S_set      == <<"_","s","e","t">>
S_value    == <<"v","a","l","u","e">>
S_resolved_type      == <<"$","r","e","s","o","l","v","e","d","_","t","y","p","e">>
S_star_resolved_type == <<"$","*","r","e","s","o","l","v","e","d","_","t","y","p","e">>
S_amp_resolved_type  == <<"$","&","r","e","s","o","l","v","e","d","_","t","y","p","e">>

\* SwigType strings of the types the inputs are drawn from
T_void   == <<"v","o","i","d">>
T_int    == <<"i","n","t">>
T_float  == <<"f","l","o","a","t">>
T_double == <<"d","o","u","b","l","e">>
T_pint   == <<"p",".","i","n","t">>
T_fnptr  == <<"p",".","f","(","i","n","t",")",".","v","o","i","d">>
T_enumE  == <<"e","n","u","m"," ","E">>
T_Foo    == <<"F","o","o">>
T_pi     == <<"p","i">>
T_Cb     == <<"C","b">>
T_varargs  == <<"v","(",".",".",".",")">>

\* names of the module, of the wrapped classes and of their members
N_mod == <<"m">>
N_ns  == <<"n","s">>
N_f   == <<"f">>
N_g   == <<"g">>
N_A   == <<"A">>
N_B   == <<"B">>
N_C   == <<"C">>
N_D   == <<"D">>

\* letters, digits and the underscore: the characters Swig_name_mangle keeps
Alnum ==
  { "a","b","c","d","e","f","g","h","i","j","k","l","m","n","o","p","q","r","s","t",
    "u","v","w","x","y","z","A","B","C","D","E","F","G","H","I","J","K","L","M","N",
    "O","P","Q","R","S","T","U","V","W","X","Y","Z","0","1","2","3","4","5","6","7",
    "8","9","_" }

-----------------------------------------------------------------------------
(* SwigType queries (SWIG's type-string encoding: elements separated by     *)
(* dots, "p." pointer, "r." reference, "q(...)." qualifier, "f(...)."       *)
(* function, "m(...)." member pointer, the base type last).                 *)

RECURSIVE LastTopDot(_, _, _, _)
\* index of the last "." of t outside parentheses, 0 when there is none
LastTopDot(t, i, depth, last) ==
  IF i > Len(t) THEN last
  ELSE IF t[i] = "(" THEN LastTopDot(t, i + 1, depth + 1, last)
  ELSE IF t[i] = ")" THEN LastTopDot(t, i + 1, depth - 1, last)
  ELSE IF t[i] = "." /\ depth = 0 THEN LastTopDot(t, i + 1, depth, i)
  ELSE LastTopDot(t, i + 1, depth, last)

RECURSIVE FirstTopDot(_, _, _)
\* index of the first "." of t outside parentheses, 0 when there is none
FirstTopDot(t, i, depth) ==
  IF i > Len(t) THEN 0
  ELSE IF t[i] = "(" THEN FirstTopDot(t, i + 1, depth + 1)
  ELSE IF t[i] = ")" THEN FirstTopDot(t, i + 1, depth - 1)
  ELSE IF t[i] = "." /\ depth = 0 THEN i
  ELSE FirstTopDot(t, i + 1, depth)

SwigType_prefix(t) == SubSeq(t, 1, LastTopDot(t, 1, 0, 0))

SwigType_base(t) == Drop(t, LastTopDot(t, 1, 0, 0))

SwigType_ispointer(t) == StartsWith(t, S_ptr)

SwigType_del_pointer(t) == Drop(t, Len(S_ptr))

SwigType_add_pointer(t) == S_ptr \o t

SwigType_isfunction(t) == StartsWith(t, S_fn)

SwigType_ismemberpointer(t) == StartsWith(t, S_mptr)

SwigType_del_memberpointer(t) == Drop(t, FirstTopDot(t, 1, 0))

SwigType_isenum(t) == StartsWith(t, S_enum)

\* the first element is a qualifier that names const
SwigType_isconst(t) ==
  StartsWith(t, S_qual) /\ Contains(SubSeq(t, 1, FirstTopDot(t, 1, 0)), S_const)

\* the typedefs known to the type system: Cb is "void (*)(int)"
SwigType_typedef_resolve_all(t) ==
  IF SwigType_base(t) = T_Cb THEN SwigType_prefix(t) \o T_fnptr ELSE t

RECURSIVE LastScope(_, _, _)
\* index of the last character of the last "::" of s, 0 when there is none
LastScope(s, i, last) ==
  IF i + 1 > Len(s) THEN last
  ELSE IF s[i] = ":" /\ s[i + 1] = ":" THEN LastScope(s, i + 2, i + 1)
  ELSE LastScope(s, i + 1, last)

Swig_scopename_last(s) == Drop(s, LastScope(s, 1, 0))

\* the scope before the last "::", NoStr when the name has none
Swig_scopename_prefix(s) ==
  IF LastScope(s, 1, 0) = 0 THEN NoStr ELSE SubSeq(s, 1, LastScope(s, 1, 0) - 2)

\* every character that cannot be in an identifier becomes "_"
Swig_name_mangle(s) ==
  [i \in 1..Len(s) |-> IF s[i] \in Alnum THEN s[i] ELSE "_"]

SwigType_strip_qualifiers(t) == Replaceall(t, S_qconst, <<>>)

\* the type with its first element removed
SwigType_pop(t) == Drop(t, FirstTopDot(t, 1, 0))

RECURSIVE SwigType_str(_)
\* the C spelling of a type made of pointers, references and a base name
SwigType_str(t) ==
  IF StartsWith(t, S_ptr) THEN SwigType_str(Drop(t, Len(S_ptr))) \o <<" ", "*">>
  ELSE IF StartsWith(t, S_ref) THEN SwigType_str(Drop(t, Len(S_ref))) \o <<" ", "&">>
  ELSE IF StartsWith(t, S_qconst) THEN S_const \o S_space \o SwigType_str(Drop(t, Len(S_qconst)))
  ELSE t

\* "_" followed by the type string with every other character made "_"
SwigType_manglestr(t) == S_us \o Swig_name_mangle(Replaceall(t, S_dot, S_us))

-----------------------------------------------------------------------------
(* Overload mangling.                                                       *)

SwigType_isbuiltin(t) ==
  t \in { <<"v","o","i","d">>,
          <<"s","h","o","r","t">>,
          <<"i","n","t">>,
          <<"l","o","n","g">>,
          <<"c","h","a","r">>,
          <<"f","l","o","a","t">>,
          <<"d","o","u","b","l","e">>,
          <<"b","o","o","l">> }

\* the chain of Replaceall calls applied to the prefix of the type
MangledPrefix(prefix) ==
  LET r1 == Replaceall(prefix, S_dot, <<>>)
      r2 == Replaceall(r1, S_const, <<"c">>)
      r3 == Replaceall(r2, S_volatile, <<"v">>)
      r4 == Replaceall(r3, S_arr, <<"a">>)
      r5 == Replaceall(r4, S_mptr, <<"m">>)
      r6 == Replaceall(r5, S_qual, <<>>)
      r7 == Replaceall(r6, S_rpar, <<>>)
  IN  Replaceall(r7, S_space, <<>>)

\* the code of the base type: first letter, "e" + enum name, or mangled name
MangledBase(base) ==
  IF SwigType_isbuiltin(base) THEN <<Head(base)>>
  ELSE IF SwigType_isenum(base)
       THEN LET enumname == Swig_scopename_last(base)
            IN  <<"e">> \o (IF StartsWith(enumname, S_enum)
                            THEN Drop(enumname, Len(S_enum)) ELSE enumname)
       ELSE Swig_name_mangle(base)

get_mangled_type(type_arg) ==
  LET tdtype == SwigType_typedef_resolve_all(type_arg)
      type1  == IF SwigType_ismemberpointer(tdtype)
                THEN SwigType_add_pointer(SwigType_del_memberpointer(tdtype))
                ELSE tdtype
  IN  IF SwigType_ispointer(type1) /\ SwigType_isfunction(SwigType_del_pointer(type1))
      THEN <<"f">>
      ELSE LET type2 == IF SwigType_ispointer(type1) THEN type_arg ELSE type1
           IN  MangledPrefix(SwigType_prefix(type2)) \o MangledBase(SwigType_base(type2))

RECURSIVE functionWrapperAppendOverloaded(_, _)
\* name followed by "_" + get_mangled_type(p) for each parameter from first_param on
functionWrapperAppendOverloaded(name, params) ==
  IF Len(params) = 0 THEN name
  ELSE functionWrapperAppendOverloaded(
         name \o S_us \o get_mangled_type(params[1].type), Tail(params))

-----------------------------------------------------------------------------
(* The input tree.  A function-like node carries the attributes c.cxx       *)
(* reads; a class node carries its base list and its children.              *)

\* bounds of the inputs
MaxParams  == 1
MaxBases   == 2
MaxMembers == 2

Parm(name, type) == [name |-> name, type |-> type]

\* a function declaration as the parser leaves it in the tree
FnNode(nodeType, kind, name, decl, parms, storage, ovgroup, copy, ctype) ==
  [ nodeType         |-> nodeType,    \* "cdecl", "constructor" or "destructor"
    kind             |-> kind,        \* "function", "variable" or "" (ctor, dtor)
    name             |-> name,
    sym_name         |-> name,        \* sym:name
    decl             |-> decl,        \* "q(const).f(int)." for a const method
    type             |-> T_void,
    parms            |-> parms,
    storage          |-> storage,     \* "", "static", "virtual" or "friend"
    access           |-> "public",
    ismember         |-> FALSE,
    staticbase       |-> FALSE,       \* cplus:staticbase
    ovgroup          |-> ovgroup,     \* sym:overloaded: 0 when not overloaded
    copy_constructor |-> copy,
    ctype            |-> ctype,       \* "ok", or which ctype typemap lookup fails
    noexcept         |-> FALSE,
    throw            |-> FALSE,       \* "throw" is "1"
    throws           |-> FALSE,       \* a "throws" list is present
    varget           |-> FALSE,
    varset           |-> FALSE,
    immutable        |-> FALSE,       \* feature:immutable of a variable
    memberget        |-> FALSE,
    memberset        |-> FALSE,
    parent_nspace    |-> FALSE,       \* feature:nspace of the parent node
    inherited_from   |-> NoStr,       \* c:inherited_from
    base_name        |-> NoStr,       \* c:base_name
    wrap_name        |-> NoStr ]      \* wrap:name

ClassNode(name, ignore, hasBases, bases, members) ==
  [ nodeType  |-> "class",
    name      |-> name,
    sym_name  |-> name,
    ignore    |-> ignore,             \* feature:ignore
    hasBases  |-> hasBases,           \* the node has a "bases" attribute
    bases     |-> bases,              \* indices in the tree of the base class nodes
    members   |-> members,
    proxyname |-> NoStr ]

\* the declarator of a function taking the given parameter types
FnDecl(types, isconst) ==
  (IF isconst THEN S_qconst ELSE <<>>)
    \o S_fn \o JoinWith(types, S_comma) \o S_rpar \o S_dot

RECURSIVE ParmsOf(_, _)
\* parameters arg1, arg2, ... of the given types
ParmsOf(types, k) ==
  IF Len(types) = 0 THEN <<>>
  ELSE <<Parm(S_arg \o <<ToString(k)>>, types[1])>> \o ParmsOf(Tail(types), k + 1)

\* ---- members of the classes of the facade inputs ----
Ctor      == FnNode("constructor", "", S_new, FnDecl(<<>>, FALSE), <<>>, "", 0, FALSE, "ok")
CopyCtor  == FnNode("constructor", "", S_copy, FnDecl(<<>>, FALSE),
                    <<Parm(<<"o">>, T_Foo)>>, "", 0, TRUE, "ok")
CopyCtorNoTm == [CopyCtor EXCEPT !.ctype = "noparm"]
Dtor      == FnNode("destructor", "", S_delete, FnDecl(<<>>, FALSE), <<>>, "", 0, FALSE, "ok")
Method(name) == FnNode("cdecl", "function", name, FnDecl(<<>>, FALSE), <<>>, "", 0, FALSE, "ok")
FreeFn(name) == FnNode("cdecl", "function", name, FnDecl(<<>>, FALSE), <<>>, "", 0, FALSE, "ok")

\* the members a class may declare, in declaration order
MemberPool == <<Ctor, CopyCtor, CopyCtorNoTm, Method(N_f), Dtor>>

RECURSIVE SubSeqsOf(_, _)
\* the subsequences of seq of at most n elements
SubSeqsOf(seq, n) ==
  IF Len(seq) = 0 \/ n = 0 THEN {<<>>}
  ELSE SubSeqsOf(Tail(seq), n)
         \cup { <<Head(seq)>> \o r : r \in SubSeqsOf(Tail(seq), n - 1) }

MemberLists == SubSeqsOf(MemberPool, MaxMembers)

\* the sequences of distinct elements of S of at most n elements
RECURSIVE DistinctSeqs(_, _)
DistinctSeqs(S, n) ==
  IF n = 0 THEN {<<>>}
  ELSE {<<>>} \cup { <<x>> \o r : x \in S, r \in DistinctSeqs(S, n - 1) }

NoDup(seq) == \A i, j \in 1..Len(seq) : i # j => seq[i] # seq[j]

BaseLists(S) == { b \in DistinctSeqs(S, MaxBases) : NoDup(b) }

-----------------------------------------------------------------------------
(* Names.                                                                   *)

\* strlen("q(const).")
ConstSkip == 9

\* The name of the class in C wrappers.  Class nodes of the inputs carry no
\* sym:nspace, and C::main() registers the "type" format as ns_prefix + "_%c".
get_c_proxy_name(cfg, cls) ==
  IF cls.proxyname # NoStr THEN cls.proxyname
  ELSE IF cfg.ns_prefix # NoStr THEN cfg.ns_prefix \o S_us \o cls.sym_name
  ELSE cls.sym_name

\* What Language's member handlers hand to functionWrapper() for a child of
\* class cls: the member name formats registered in C::main(), the "self"
\* parameter of non-static members, cplus:staticbase of static ones.
MemberView(cfg, cls, n) ==
  LET proxy == get_c_proxy_name(cfg, cls)
      self  == Parm(S_self, S_ptr \o (IF SwigType_isconst(n.decl) THEN S_qconst ELSE <<>>)
                                  \o cls.name)
  IN  CASE n.nodeType = "constructor" ->
             [n EXCEPT !.sym_name = proxy \o S_us
                                      \o (IF n.copy_constructor THEN S_copy ELSE S_new),
                       !.type = S_ptr \o cls.name]
        [] n.nodeType = "destructor" ->
             [n EXCEPT !.sym_name = proxy \o S_us \o S_delete, !.parms = <<self>>]
        [] n.storage = "friend" -> n
        [] n.storage = "static" ->
             [n EXCEPT !.sym_name = proxy \o S_us \o n.sym_name, !.ismember = TRUE,
                       !.staticbase = TRUE, !.storage = ""]
        [] OTHER ->
             [n EXCEPT !.sym_name = proxy \o S_us \o n.sym_name, !.ismember = TRUE,
                       !.parms = <<self>> \o n.parms]

\* The "type" attribute membervariableHandler(n) leaves in the node of a
\* member variable: the type with all typedefs resolved.  No member of the
\* inputs is an array of objects.
membervariableHandler(n) ==
  IF n.kind = "variable" /\ n.storage # "static"
  THEN SwigType_typedef_resolve_all(n.type)
  ELSE n.type

\* What Language::membervariableHandler hands to functionWrapper() for the
\* getter and then the setter of a member variable of class cls.
MemberVarView(cfg, cls, n, acc) ==
  LET proxy == get_c_proxy_name(cfg, cls)
      self  == Parm(S_self, S_ptr \o cls.name)
      mname == proxy \o S_us \o n.sym_name
  IN  IF acc = "get"
      THEN [n EXCEPT !.sym_name = mname \o S_get, !.ismember = TRUE, !.memberget = TRUE,
                     !.parms = <<self>>]
      ELSE [n EXCEPT !.sym_name = mname \o S_set, !.ismember = TRUE, !.memberset = TRUE,
                     !.type = T_void, !.parms = <<self, Parm(n.name, n.type)>>]

\* make_c_var_decl(n): the declaration of a variable exported directly,
\* NoStr when its type cannot be written in C.  The variables of the inputs
\* are neither arrays nor unnamed instances nor of type bool.
make_c_var_decl(n) ==
  LET btype == SwigType_base(n.type)
  IN  IF SwigType_isenum(btype)
      THEN Replaceall(SwigType_str(n.type), btype, T_int) \o S_space \o n.name
      ELSE IF StartsWith(n.type, S_ref) THEN NoStr
      ELSE IF ~SwigType_isbuiltin(btype) THEN NoStr
      ELSE SwigType_str(n.type) \o S_space \o n.name

\* a faulty variant: the global prefix is not looked at
ExportedDirectly_IgnoresPrefix(cfg, n) ==
  /\ Swig_scopename_prefix(n.name) = NoStr
  /\ make_c_var_decl(n) # NoStr

\* globalvariableHandler(n) exports the variable itself
ExportedDirectly(cfg, n) ==
  /\ cfg.ns_prefix = NoStr
  /\ Swig_scopename_prefix(n.name) = NoStr
  /\ make_c_var_decl(n) # NoStr

\* What globalvariableHandler(n) and Language::globalvariableHandler hand to
\* functionWrapper() for the getter and then the setter of a global variable:
\* sym:name carries the global prefix when there is one.
GlobalVarView(cfg, n, acc) ==
  LET sym == IF cfg.ns_prefix # NoStr THEN cfg.ns_prefix \o S_us \o n.sym_name
             ELSE n.sym_name
  IN  IF acc = "get"
      THEN [n EXCEPT !.sym_name = sym \o S_get, !.varget = TRUE]
      ELSE [n EXCEPT !.sym_name = sym \o S_set, !.varset = TRUE, !.type = T_void,
                     !.parms = <<Parm(n.name, n.type)>>]

\* a faulty variant: the qualifier is skipped without its trailing dot
HasNonConstTwin_ShortSkip(n, others) ==
  \E k \in 1..Len(others) : others[k] = Drop(n.decl, ConstSkip - 1)

\* an overload that differs from the const method n by const only
HasNonConstTwin(n, others) ==
  \E k \in 1..Len(others) : others[k] = Drop(n.decl, ConstSkip)

\* The wrapper name before prefixing: sym:name, "_const" for a const method
\* that has a non-const twin, and the mangled parameter types.  others are the
\* declarators of the other nodes of the sym:overloaded chain.
OverloadedName(n, others) ==
  IF n.ovgroup = 0 \/ n.copy_constructor \/ Len(n.parms) = 0 THEN n.sym_name
  ELSE IF n.nodeType # "constructor" /\ n.ismember /\ ~n.staticbase
       THEN functionWrapperAppendOverloaded(
              IF SwigType_isconst(n.decl) /\ HasNonConstTwin(n, others)
              THEN n.sym_name \o S__const ELSE n.sym_name,
              Tail(n.parms))
       ELSE functionWrapperAppendOverloaded(n.sym_name, n.parms)

\* a faulty variant: the global prefix is never used
getFunctionWrapperName_NoGlobalPrefix(cfg, currentClass, n, name) ==
  IF (currentClass /\ (n.ismember \/ n.nodeType = "constructor"
                                  \/ n.nodeType = "destructor"))
       \/ n.varget \/ n.varset
  THEN name
  ELSE LET sp == IF n.parent_nspace THEN Swig_scopename_prefix(n.name) ELSE NoStr
           prefix == IF sp # NoStr THEN Swig_name_mangle(sp) ELSE cfg.module_name
       IN  prefix \o S_us \o name

getFunctionWrapperName(cfg, currentClass, n, name) ==
  IF (currentClass /\ (n.ismember \/ n.nodeType = "constructor"
                                  \/ n.nodeType = "destructor"))
       \/ n.varget \/ n.varset
  THEN name
  ELSE LET sp == IF n.parent_nspace THEN Swig_scopename_prefix(n.name) ELSE NoStr
           prefix == IF sp # NoStr THEN Swig_name_mangle(sp)
                     ELSE IF cfg.ns_prefix # NoStr THEN cfg.ns_prefix
                     ELSE cfg.module_name
       IN  prefix \o S_us \o name

-----------------------------------------------------------------------------
(* Output.  A section is a sequence of the pieces of text written to it.    *)

\* The signature printed after "SWIGEXPORTC " or "SWIGIMPORT ": the return
\* type, the parameters and whether the parameter list was printed at all.
Sig(ret, proto) == [ret |-> ret, parms |-> proto.parms, closed |-> proto.closed]

NoSig == [ret |-> NoStr, parms |-> <<>>, closed |-> FALSE]

Tok(t, cls, name, flag) ==
  [t |-> t, cls |-> cls, name |-> name, flag |-> flag, sig |-> NoSig]

\* a piece that carries the signature of a C function
CTok(t, cls, name, sig) ==
  [t |-> t, cls |-> cls, name |-> name, flag |-> FALSE, sig |-> sig]

Warn(w, cls, name) == [w |-> w, cls |-> cls, name |-> name]

NoWrapper ==
  [live |-> FALSE, class_node_ |-> 0, first_base_ |-> 0, has_copy_ctor_ |-> FALSE]

RECURSIVE ScanBases_NoSecond(_, _, _)
\* a faulty variant: a second usable base goes unnoticed
ScanBases_NoSecond(tr, bases, first) ==
  IF Len(bases) = 0 THEN [first |-> first, multi |-> FALSE]
  ELSE IF tr[Head(bases)].ignore THEN ScanBases_NoSecond(tr, Tail(bases), first)
  ELSE IF first # 0 THEN [first |-> first, multi |-> FALSE]
  ELSE ScanBases_NoSecond(tr, Tail(bases), Head(bases))

RECURSIVE ScanBases(_, _, _)
\* The loop of the cxx_class_wrapper constructor over the "bases" list: the
\* first base not marked feature:ignore, and whether a second one was met.
ScanBases(tr, bases, first) ==
  IF Len(bases) = 0 THEN [first |-> first, multi |-> FALSE]
  ELSE IF tr[Head(bases)].ignore THEN ScanBases(tr, Tail(bases), first)
  ELSE IF first # 0 THEN [first |-> first, multi |-> TRUE]
  ELSE ScanBases(tr, Tail(bases), Head(bases))

\* The base clause is printed whenever the node has a "bases" attribute
BaseClausePrinted(cls) == cls.hasBases

\* The post-call exception check is wanted for this member
ExceptChecked(cfg, n) ==
  cfg.except # "disabled" /\ ~(n.noexcept \/ (n.throw /\ ~n.throws))

\* a faulty variant: an emitted copy constructor is not remembered
RemembersCopyCtor_Never(n) == FALSE

\* the constructor sets has_copy_ctor_ after emitting a copy constructor
RemembersCopyCtor(n) == n.copy_constructor

\* The destructor of a class with a base clears the ownership flag
DtorResetsFlag(cw) == cw.first_base_ # 0

\* cxx_class_wrapper::emit_member_function: what it appends to the facade
\* sections, the new has_copy_ctor_ and the diagnostics, for the node n as
\* functionWrapper() sees it, with wrap:name wname.
emit_member_function(cfg, tr, cw, n, wname) ==
  LET none == [decls |-> <<>>, impls |-> <<>>, copy |-> cw.has_copy_ctor_, warn |-> <<>>]
      cls  == tr[cw.class_node_].sym_name
      is_member == n.ismember
      is_static == is_member /\ n.staticbase
      is_ctor   == n.nodeType = "constructor"
      \* the parameters after "self"
      ps   == IF Len(n.parms) > 0 /\ is_member /\ ~is_ctor /\ ~is_static
                 /\ n.parms[1].name = S_self
              THEN Tail(n.parms) ELSE n.parms
      chk  == ExceptChecked(cfg, n)
      nm   == Swig_scopename_last(n.name)
  IN  IF cw.class_node_ = 0 THEN none
      ELSE IF n.inherited_from # NoStr THEN none
      ELSE IF n.storage = "friend" THEN none
      ELSE IF n.type # T_void /\ n.ctype = "noret"
           THEN [none EXCEPT !.warn = <<Warn("ctype_return", cls, n.sym_name)>>]
      ELSE IF Len(ps) > 0 /\ n.ctype = "noparm"
           THEN [none EXCEPT !.warn = <<Warn("ctype_parameter", cls, n.sym_name)>>]
      ELSE IF n.kind = "variable"
           THEN IF n.memberget THEN [none EXCEPT !.decls = <<Tok("memberget", cls, nm, FALSE)>>]
                ELSE IF n.memberset THEN [none EXCEPT !.decls = <<Tok("memberset", cls, nm, FALSE)>>]
                ELSE IF n.varget THEN [none EXCEPT !.decls = <<Tok("varget", cls, nm, FALSE)>>]
                ELSE IF n.varset THEN [none EXCEPT !.decls = <<Tok("varset", cls, nm, FALSE)>>]
                ELSE [none EXCEPT !.warn = <<Warn("no_cxx_variable", cls, n.sym_name)>>]
      ELSE IF is_ctor
           THEN [ decls |-> <<Tok("ctor", cls, wname, n.copy_constructor)>>,
                  impls |-> <<Tok("ctor_impl", cls, wname, chk)>>,
                  copy  |-> cw.has_copy_ctor_ \/ RemembersCopyCtor(n),
                  warn  |-> <<>> ]
      ELSE IF n.nodeType = "destructor"
           THEN [none EXCEPT !.decls = <<Tok("dtor", cls, wname, DtorResetsFlag(cw))>>]
      ELSE IF is_member
           THEN [none EXCEPT !.decls = <<Tok("method", cls, nm, is_static)>>,
                             !.impls = <<Tok("method_impl", cls, wname, chk)>>]
      ELSE [none EXCEPT !.warn = <<Warn("no_cxx_wrapper", cls, n.sym_name)>>]

\* ~cxx_class_wrapper: the trailer of the class declaration
ClassTrailer(tr, cw) ==
  IF cw.class_node_ = 0 THEN <<>>
  ELSE LET cls  == tr[cw.class_node_].sym_name
           base == IF cw.first_base_ # 0 THEN tr[cw.first_base_].sym_name ELSE NoStr
           has  == cw.first_base_ # 0
       IN  <<Tok("ptr_ctor", cls, base, has)>>
           \o (IF ~cw.has_copy_ctor_ THEN <<Tok("copy_ctor_deleted", cls, NoStr, FALSE)>>
               ELSE <<>>)
           \o <<Tok("copy_assign_deleted", cls, NoStr, FALSE),
                Tok("move_ctor", cls, NoStr, has),
                Tok("move_assign", cls, NoStr, has),
                Tok("swig_self", cls, base, has)>>
           \o (IF has THEN <<>> ELSE <<Tok("fields", cls, NoStr, FALSE)>>)
           \o <<Tok("class_close", cls, NoStr, FALSE)>>

-----------------------------------------------------------------------------
(* classHandler(): inheritance flattening.                                  *)

S_opassign == <<"o", "p", "e", "r", "a", "t", "o", "r", " ", "=">>

\* index of the first child named name, or 0
is_in(name, children) ==
  IF \E k \in 1..Len(children) : children[k].name = name
  THEN CHOOSE k \in 1..Len(children) :
         children[k].name = name /\ \A m \in 1..(k - 1) : children[m].name # name
  ELSE 0

\* the shadow of node in a derived class; parent_name is the name of the
\* class declaring node.  Attributes that are not copied are absent.
copy_node(node, parent_name) ==
  [ FnNode("cdecl", node.kind, node.name, node.decl, node.parms, "", 0, FALSE, node.ctype)
      EXCEPT !.ismember = node.ismember, !.access = node.access, !.type = node.type,
             !.inherited_from = parent_name, !.sym_name = node.sym_name ]

\* a faulty variant that also copies the assignment operators
FlattenNode_CopiesAssign(ch, node, parent_name) ==
  IF ~(node.kind \in {"variable", "function"}) THEN ch
  ELSE IF ~(node.access = "public" /\ node.storage # "static") THEN ch
  ELSE IF node.sym_name = NoStr THEN ch
  ELSE IF is_in(node.name, ch) # 0 THEN ch
  ELSE Append(ch, copy_node(node, parent_name))

\* the children of the derived class after looking at one child of a base
FlattenNode(ch, node, parent_name) ==
  IF ~(node.kind \in {"variable", "function"}) THEN ch
  ELSE IF ~(node.access = "public" /\ node.storage # "static") THEN ch
  ELSE IF ~(node.sym_name # NoStr /\ node.name # S_opassign) THEN ch
  ELSE LET d == is_in(node.name, ch)
       IN  IF d # 0
           THEN LET cif      == ch[d].inherited_from
                    old_name == ch[d].sym_name
                IN  IF cif # NoStr /\ parent_name # NoStr /\ cif # parent_name
                    THEN Append([ch EXCEPT ![d].sym_name = cif \o old_name,
                                           ![d].base_name = old_name],
                                [copy_node(node, parent_name)
                                   EXCEPT !.name = parent_name \o old_name,
                                          !.base_name = old_name])
                    ELSE ch
           ELSE Append(ch, copy_node(node, parent_name))

RECURSIVE FlattenChildren(_, _, _)
FlattenChildren(ch, nodes, parent_name) ==
  IF Len(nodes) = 0 THEN ch
  ELSE FlattenChildren(FlattenNode(ch, Head(nodes), parent_name), Tail(nodes), parent_name)

RECURSIVE FlattenBases(_, _, _)
\* the children of the class after attaching the members of all of bases
FlattenBases(tr, ch, bases) ==
  IF Len(bases) = 0 THEN ch
  ELSE FlattenBases(tr,
         FlattenChildren(ch, tr[Head(bases)].members, tr[Head(bases)].name),
         Tail(bases))

-----------------------------------------------------------------------------
(* The signature of a C wrapper function: the "ctype" typemap of the return *)
(* type and of each parameter, with the $resolved_type variables expanded.  *)

\* which of the two outputs of functionWrapper() the signature is made for
output_wrapper_def  == "def"
output_wrapper_decl == "decl"

\* Language::classLookup: the class node the type refers to, through
\* pointers, references and qualifiers; 0 when there is none
classLookup(tr, t) ==
  LET base == SwigType_base(t)
      pre  == SwigType_prefix(t)
      hits == { k \in 1..Len(tr) : tr[k].nodeType = "class" /\ tr[k].name = base }
  IN  IF hits = {} \/ Contains(pre, S_fn) \/ Contains(pre, S_arr) \/ Contains(pre, S_mptr)
      THEN 0
      ELSE CHOOSE k \in hits : \A m \in hits : k <= m

\* The "ctype" typemap that applies to a type: the spelling of the type for
\* the built-in types and pointers to them, the SWIGTYPE typemaps otherwise.
ctype_typemap(type) ==
  LET t == SwigType_strip_qualifiers(SwigType_typedef_resolve_all(type))
  IN  IF SwigType_isbuiltin(SwigType_base(t)) /\ SwigType_prefix(t) \in {<<>>, S_ptr}
      THEN SwigType_str(t)
      ELSE IF SwigType_isenum(t) THEN S_resolved_type
      ELSE IF SwigType_ispointer(t) THEN S_resolved_type \o S_star
      ELSE IF StartsWith(t, S_ref) THEN S_star_resolved_type \o S_star
      ELSE S_amp_resolved_type \o S_star

\* The result of a substitution: the text, the opaque types declared on the
\* way and the class nodes whose proxy name was asked for.
Subst(tm, opaque, seen) == [tm |-> tm, opaque |-> opaque, seen |-> seen]

\* a faulty variant: the definition names the proxy type as the declaration does
ResolvedTypeName_NoSwigObj(cfg, tr, output, classnametype, btype, k) ==
  IF SwigType_isenum(classnametype) THEN Subst(T_int, <<>>, {})
  ELSE IF btype = S_SwigObj THEN Subst(S_SwigObj, <<>>, {})
  ELSE IF k # 0 THEN Subst(get_c_proxy_name(cfg, tr[k]), <<>>, {k})
  ELSE IF SwigType_isbuiltin(btype) THEN Subst(SwigType_str(classnametype), <<>>, {})
  ELSE Subst(S_SWIGTYPE \o SwigType_manglestr(classnametype),
             <<S_SWIGTYPE \o SwigType_manglestr(classnametype)>>, {})

\* The text substituteResolvedTypeSpecialVariable() puts in place of the
\* special variable, for the type, its base type btype and the class node k
\* found by classLookup.  The inputs are C++ declarations (CPlusPlus is set),
\* and the enum types of the parameters are not found by enumLookup.
ResolvedTypeName(cfg, tr, output, classnametype, btype, k) ==
  IF SwigType_isenum(classnametype) THEN Subst(T_int, <<>>, {})
  ELSE IF output = output_wrapper_def \/ btype = S_SwigObj THEN Subst(S_SwigObj, <<>>, {})
  ELSE IF k # 0 THEN Subst(get_c_proxy_name(cfg, tr[k]), <<>>, {k})
  ELSE IF SwigType_isbuiltin(btype) THEN Subst(SwigType_str(classnametype), <<>>, {})
  ELSE Subst(S_SWIGTYPE \o SwigType_manglestr(classnametype),
             <<S_SWIGTYPE \o SwigType_manglestr(classnametype)>>, {})

\* Replaceall(tm, classnamespecialvariable, typestr), and the typedef printed
\* for a type SWIG knows nothing about
ReplaceSpecialVariable(s, var, r) ==
  Subst(Replaceall(s.tm, var, r.tm), s.opaque \o r.opaque, s.seen \cup r.seen)

\* substituteResolvedTypeSpecialVariable(classnametype, tm, var) for the
\* current output
substituteResolvedTypeSpecialVariable(cfg, tr, output, classnametype, s, var) ==
  ReplaceSpecialVariable(s, var,
    ResolvedTypeName(cfg, tr, output, classnametype, SwigType_base(classnametype),
                     classLookup(tr, classnametype)))

\* the three steps of substituteResolvedType() on the stripped type
SubstResolved(cfg, tr, output, stripped, s) ==
  IF Contains(s.tm, S_resolved_type)
  THEN substituteResolvedTypeSpecialVariable(cfg, tr, output, stripped, s, S_resolved_type)
  ELSE s

SubstStarResolved(cfg, tr, output, stripped, s) ==
  IF Contains(s.tm, S_star_resolved_type) /\ Len(SwigType_pop(stripped)) > 0
  THEN substituteResolvedTypeSpecialVariable(cfg, tr, output, SwigType_pop(stripped), s,
                                             S_star_resolved_type)
  ELSE s

SubstAmpResolved(cfg, tr, output, stripped, s) ==
  IF Contains(s.tm, S_amp_resolved_type)
  THEN substituteResolvedTypeSpecialVariable(cfg, tr, output,
         SwigType_add_pointer(stripped), s, S_amp_resolved_type)
  ELSE s

SubstAll(cfg, tr, output, stripped, s) ==
  SubstAmpResolved(cfg, tr, output, stripped,
    SubstStarResolved(cfg, tr, output, stripped,
      SubstResolved(cfg, tr, output, stripped, s)))

\* substituteResolvedType(pt, tm)
substituteResolvedType(cfg, tr, output, pt, tm) ==
  SubstAll(cfg, tr, output,
           SwigType_strip_qualifiers(SwigType_typedef_resolve_all(pt)),
           Subst(tm, <<>>, {}))

\* the return type after Replaceall(return_type, "::", "_")
ReturnType(s) ==
  [text |-> Replaceall(s.tm, S_scope, S_us), opaque |-> s.opaque, seen |-> s.seen,
   diag |-> <<>>]

\* get_wrapper_func_return_type(n): the text, and the diagnostic of a failed
\* "ctype" lookup, after which the return type is the empty text
get_wrapper_func_return_type(cfg, tr, output, n) ==
  IF n.ctype = "noret"
  THEN [text |-> <<>>, opaque |-> <<>>, seen |-> {},
        diag |-> <<Warn("ctype_undef", NoStr, SwigType_str(n.type))>>]
  ELSE ReturnType(substituteResolvedType(cfg, tr, output, n.type, ctype_typemap(n.type)))

\* no prototype: get_wrapper_func_proto() returned NULL
NoProto == [parms |-> <<>>, closed |-> FALSE, opaque |-> <<>>, seen |-> {}, diag |-> <<>>]

\* Printv(proto, gencomma ? ", " : "", c_parm_type, " ", arg_name, NIL)
PrintParm(acc, s, name) ==
  [acc EXCEPT !.parms = Append(@, [type |-> s.tm, name |-> name]),
              !.opaque = @ \o s.opaque,
              !.seen = @ \cup s.seen]

\* The same with a null c_parm_type, which ends the argument list of
\* Printv(): only the separator is printed for the parameter.
PrintNoParm(acc, type) ==
  [acc EXCEPT !.parms = Append(@, [type |-> NoStr, name |-> NoStr]),
              !.diag = Append(@, Warn("ctype_undef", NoStr, SwigType_str(type)))]

\* Swig_error("Vararg function %s not supported."); return NULL
VarargError(acc, n) ==
  [NoProto EXCEPT !.opaque = acc.opaque, !.seen = acc.seen,
                  !.diag = Append(acc.diag, Warn("vararg_error", NoStr, n.name))]

RECURSIVE ProtoLoop(_, _, _, _, _, _)
\* the loop of get_wrapper_func_proto() over the parameters from index k on,
\* acc being what was printed so far
ProtoLoop(cfg, tr, output, n, k, acc) ==
  IF k > Len(n.parms) THEN [acc EXCEPT !.closed = TRUE]
  ELSE IF n.parms[k].type = T_void THEN ProtoLoop(cfg, tr, output, n, k + 1, acc)
  ELSE IF n.parms[k].type = T_varargs THEN VarargError(acc, n)
  ELSE IF n.ctype = "noparm"
       THEN ProtoLoop(cfg, tr, output, n, k + 1, PrintNoParm(acc, n.parms[k].type))
  ELSE ProtoLoop(cfg, tr, output, n, k + 1,
         PrintParm(acc,
                   substituteResolvedType(cfg, tr, output, n.parms[k].type,
                                          ctype_typemap(n.parms[k].type)),
                   S_carg \o <<ToString(k)>>))

\* get_wrapper_func_proto(n, wrapper)
get_wrapper_func_proto(cfg, tr, output, n) ==
  ProtoLoop(cfg, tr, output, n, 1, NoProto)

-----------------------------------------------------------------------------
(* The tree walk.                                                           *)

\* the next top-level node the driver dispatches: ignored nodes are skipped
RECURSIVE SkipIgnored(_, _)
SkipIgnored(tr, i) ==
  IF i <= Len(tr) /\ tr[i].nodeType = "class" /\ tr[i].ignore
  THEN SkipIgnored(tr, i + 1) ELSE i

\* acc: which accessor of a variable is wrapped next
AtTop(i)      == [phase |-> "top", item |-> i, member |-> 0, acc |-> "get"]
InClass(i, j) == [phase |-> "class", item |-> i, member |-> j, acc |-> "get"]
Crashed(i)    == [phase |-> "crashed", item |-> i, member |-> 0, acc |-> "get"]

\* What evaluating Getattr(first_base_, "sym:name") with a null first_base_
\* may do: the attribute lookup dereferences the null object.  Either the
\* process dies there, or the lookup yields NULL, which ends the argument
\* list of Printv() early so that the clause is printed without a name.
NullBaseOutcomes == {"crash", "null"}

\* declarators of the other members of the sym:overloaded chain of children[j]
OverloadSiblings(children, j) ==
  LET idx == { k \in 1..Len(children) :
                 /\ k # j
                 /\ children[k].nodeType # "class"
                 /\ children[j].ovgroup # 0
                 /\ children[k].ovgroup = children[j].ovgroup }
      F[k \in 0..Len(children)] ==
        IF k = 0 THEN <<>>
        ELSE IF k \in idx THEN Append(F[k - 1], children[k].decl) ELSE F[k - 1]
  IN  F[Len(children)]

\* classHandler(n) up to the call of Language::classHandler(): the proxy
\* name, the cxx_class_wrapper constructor, the flattening and the typedef.
classHandler ==
  /\ pos.phase = "top"
  /\ pos.item <= Len(tree)
  /\ tree[pos.item].nodeType = "class"
  /\ LET i    == pos.item
         n    == tree[i]
         name == get_c_proxy_name(config, n)
         scan == IF n.hasBases THEN ScanBases(tree, n.bases, 0)
                 ELSE [first |-> 0, multi |-> FALSE]
         ch   == IF n.hasBases THEN FlattenBases(tree, n.members, n.bases) ELSE n.members
         tr2  == [tree EXCEPT ![i].proxyname = name, ![i].members = ch]
         rest == /\ tree' = tr2
                 /\ sect_wrappers_types' =
                      Append(sect_wrappers_types, Tok("typedef", n.sym_name, name, FALSE))
                 /\ pos' = InClass(i, 1)
     IN  IF ~config.cxx
         THEN /\ class_wrapper' = [NoWrapper EXCEPT !.live = TRUE]
              /\ rest
              /\ UNCHANGED <<sect_types, sect_decls, diag>>
         ELSE IF scan.multi
         THEN /\ class_wrapper' = [NoWrapper EXCEPT !.live = TRUE, !.first_base_ = scan.first]
              /\ diag' = Append(diag, Warn("multiple_inheritance", n.sym_name, NoStr))
              /\ rest
              /\ UNCHANGED <<sect_types, sect_decls>>
         ELSE IF BaseClausePrinted(n) /\ scan.first = 0
         THEN \E outcome \in NullBaseOutcomes :
                IF outcome = "crash"
                THEN /\ pos' = Crashed(i)
                     /\ tree' = [tree EXCEPT ![i].proxyname = name]
                     /\ class_wrapper' = [NoWrapper EXCEPT !.live = TRUE]
                     /\ UNCHANGED <<sect_wrappers_types, sect_types, sect_decls, diag>>
                ELSE /\ sect_types' = Append(sect_types, Tok("class_fwd", n.sym_name, NoStr, FALSE))
                     /\ sect_decls' = Append(sect_decls, Tok("class_open", n.sym_name, NoStr, TRUE))
                     /\ class_wrapper' = [NoWrapper EXCEPT !.live = TRUE, !.class_node_ = i]
                     /\ rest
                     /\ UNCHANGED diag
         ELSE /\ sect_types' = Append(sect_types, Tok("class_fwd", n.sym_name, NoStr, FALSE))
              /\ sect_decls' = Append(sect_decls,
                   Tok("class_open", n.sym_name,
                       IF scan.first # 0 THEN tree[scan.first].sym_name ELSE NoStr,
                       BaseClausePrinted(n)))
              /\ class_wrapper' = [NoWrapper EXCEPT !.live = TRUE, !.class_node_ = i,
                                                    !.first_base_ = scan.first]
              /\ rest
              /\ UNCHANGED diag
  /\ UNCHANGED <<config, sect_wrappers_decl, sect_wrappers, sect_impls, rtVars, exVars, topVars>>

\* the node the walk is at
CurrentNode ==
  IF pos.phase = "class" THEN tree[pos.item].members[pos.member] ELSE tree[pos.item]

\* the node as the handlers of Language hand it to functionWrapper()
CurrentView(raw) ==
  IF pos.phase = "class"
  THEN IF raw.kind = "variable"
       THEN MemberVarView(config, tree[pos.item],
                          [raw EXCEPT !.type = membervariableHandler(raw)], pos.acc)
       ELSE MemberView(config, tree[pos.item], raw)
  ELSE IF raw.kind = "variable" THEN GlobalVarView(config, raw, pos.acc) ELSE raw

\* get_c_proxy_name() caches the name in each class node it is asked about
CacheProxyNames(tr, cfg, seen) ==
  [k \in 1..Len(tr) |->
     IF k \in seen THEN [tr[k] EXCEPT !.proxyname = get_c_proxy_name(cfg, tr[k])]
     ELSE tr[k]]

\* the typedefs printed for the types SWIG knows nothing about
OpaqueTypedefs(opaque) ==
  [k \in 1..Len(opaque) |-> Tok("opaque_typedef", NoStr, opaque[k], FALSE)]

\* What functionWrapperCPPSpecific(n) writes: the definition printed by
\* Wrapper_print(), the declaration printed by emit_wrapper_func_decl() and
\* what emit_member_function() appended, em.
WriteWrapper(i, inClass, j, again, cls, wname, retD, protoD, retH, protoH, em) ==
  /\ tree' = IF inClass
             THEN [CacheProxyNames(tree, config, retH.seen \cup protoH.seen)
                     EXCEPT ![i].members[j].wrap_name = wname,
                            ![i].members[j].type = membervariableHandler(tree[i].members[j])]
             ELSE [CacheProxyNames(tree, config, retH.seen \cup protoH.seen)
                     EXCEPT ![i].wrap_name = wname]
  /\ sect_wrappers' = Append(sect_wrappers, CTok("def", cls, wname, Sig(retD.text, protoD)))
  /\ sect_wrappers_decl' =
       Append(sect_wrappers_decl, CTok("decl", cls, wname, Sig(retH.text, protoH)))
  /\ sect_wrappers_types' = sect_wrappers_types
       \o OpaqueTypedefs(retD.opaque \o protoD.opaque \o retH.opaque \o protoH.opaque)
  /\ sect_decls' = sect_decls \o em.decls
  /\ sect_impls' = sect_impls \o em.impls
  /\ diag' = diag \o retD.diag \o protoD.diag \o retH.diag \o protoH.diag \o em.warn
  /\ class_wrapper' = [class_wrapper EXCEPT !.has_copy_ctor_ = em.copy]
  /\ pos' = IF again THEN [pos EXCEPT !.acc = "set"]
            ELSE IF inClass THEN InClass(i, j + 1)
            ELSE AtTop(SkipIgnored(tree, i + 1))

\* the call of emit_member_function(n) at the end of functionWrapperCPPSpecific
MemberFunction(n, wname) ==
  IF class_wrapper.live
  THEN emit_member_function(config, tree, class_wrapper, [n EXCEPT !.wrap_name = wname],
                            wname)
  ELSE [decls |-> <<>>, impls |-> <<>>, copy |-> class_wrapper.has_copy_ctor_,
        warn |-> <<>>]

\* functionWrapperCPPSpecific(n) once the wrapper name is known: the
\* signature for the definition (current_output = output_wrapper_def), then
\* the one for the declaration
WrapWithName(i, inClass, j, raw, n, wname) ==
  WriteWrapper(i, inClass, j,
               raw.kind = "variable" /\ pos.acc = "get" /\ ~raw.immutable,
               IF inClass THEN tree[i].sym_name ELSE NoStr,
               wname,
               get_wrapper_func_return_type(config, tree, output_wrapper_def, n),
               get_wrapper_func_proto(config, tree, output_wrapper_def, n),
               get_wrapper_func_return_type(config, tree, output_wrapper_decl, n),
               get_wrapper_func_proto(config, tree, output_wrapper_decl, n),
               MemberFunction(n, wname))

\* functionWrapperCPPSpecific(n) for the member j of the class at i, or for
\* the top-level node at i; raw is the node in the tree, n what is wrapped
functionWrapperCPPSpecific(i, inClass, j, raw, n) ==
  WrapWithName(i, inClass, j, raw, n,
    getFunctionWrapperName(config, inClass, n,
      OverloadedName(n, IF inClass THEN OverloadSiblings(tree[i].members, j)
                        ELSE OverloadSiblings(tree, i))))

\* Language::emit_one() and Language::cDeclaration() call no handler for a
\* member that has no sym:name or is not public
Unwrapped(n) ==
  n.nodeType # "enum" /\ (n.sym_name = NoStr \/ n.access # "public")

\* the walk passes a member of the current class that is not wrapped
cDeclarationSkipped ==
  /\ pos.phase = "class" /\ pos.member <= Len(tree[pos.item].members)
  /\ Unwrapped(tree[pos.item].members[pos.member])
  /\ pos' = InClass(pos.item, pos.member + 1)
  /\ UNCHANGED <<tree, config, sect_wrappers_types, sect_wrappers_decl, sect_wrappers,
                 sect_types, sect_decls, sect_impls, class_wrapper, diag, rtVars, exVars,
                 topVars>>

\* functionWrapper(n) for the node the walk is at: a member of the current
\* class, or a top-level function or accessor of a variable.
functionWrapper ==
  /\ \/ /\ pos.phase = "class" /\ pos.member <= Len(tree[pos.item].members)
        /\ tree[pos.item].members[pos.member].nodeType # "enum"
        /\ ~Unwrapped(tree[pos.item].members[pos.member])
     \/ /\ pos.phase = "top" /\ pos.item <= Len(tree)
        /\ tree[pos.item].nodeType \notin {"class", "enum"}
        /\ tree[pos.item].kind = "variable"
             => (tree[pos.item].storage # "static"
                   /\ ~ExportedDirectly(config, tree[pos.item]))
  /\ functionWrapperCPPSpecific(pos.item, pos.phase = "class", pos.member,
                                CurrentNode, CurrentView(CurrentNode))
  /\ UNCHANGED <<config, sect_types, rtVars, exVars, topVars>>

\* globalvariableHandler(n) for a variable that gets no accessor functions:
\* a static one is not wrapped, another one is declared in the header.
globalvariableHandler ==
  /\ pos.phase = "top" /\ pos.item <= Len(tree)
  /\ tree[pos.item].nodeType \notin {"class", "enum"}
  /\ tree[pos.item].kind = "variable"
  /\ tree[pos.item].storage = "static" \/ ExportedDirectly(config, tree[pos.item])
  /\ LET n == tree[pos.item]
     IN  sect_wrappers_decl' =
           IF n.storage = "static" THEN sect_wrappers_decl
           ELSE Append(sect_wrappers_decl, Tok("var_decl", NoStr, make_c_var_decl(n), FALSE))
  /\ pos' = AtTop(SkipIgnored(tree, pos.item + 1))
  /\ UNCHANGED <<tree, config, sect_wrappers_types, sect_wrappers, sect_types, sect_decls,
                 sect_impls, class_wrapper, diag, rtVars, exVars, topVars>>

\* The end of classHandler(n): the cxx_class_wrapper object goes out of scope
classHandlerEnd ==
  /\ pos.phase = "class"
  /\ pos.member > Len(tree[pos.item].members)
  /\ sect_decls' = sect_decls \o (IF class_wrapper.live /\ config.cxx
                                  THEN ClassTrailer(tree, class_wrapper) ELSE <<>>)
  /\ class_wrapper' = NoWrapper
  /\ pos' = AtTop(SkipIgnored(tree, pos.item + 1))
  /\ UNCHANGED <<tree, config, sect_wrappers_types, sect_wrappers_decl, sect_wrappers,
                 sect_types, sect_impls, diag, rtVars, exVars, topVars>>

-----------------------------------------------------------------------------
(* Inputs and specifications of the generator.                              *)

\* the options C::main() leaves behind
Config(cxx, except, ns_prefix) ==
  [cxx |-> cxx, except |-> except, ns_prefix |-> ns_prefix, module_name |-> N_mod]

Configs ==
  { Config(TRUE, "enabled", NoStr), Config(FALSE, "enabled", NoStr),
    Config(TRUE, "disabled", N_ns) }

\* Classes A, B and C, a class D deriving from some of them, and a function
FacadeTrees ==
  { << ClassNode(N_A, ia, FALSE, <<>>, <<Method(N_f)>>),
       ClassNode(N_B, ib, FALSE, <<>>, <<Method(N_f)>>),
       ClassNode(N_C, FALSE, FALSE, <<>>, <<Method(N_g)>>),
       ClassNode(N_D, FALSE, hb, IF hb THEN bs ELSE <<>>, ms),
       FreeFn(N_g) >> :
      ia \in BOOLEAN, ib \in BOOLEAN, hb \in BOOLEAN,
      bs \in BaseLists({1, 2, 3}), ms \in MemberLists }

\* the state of the facade objects and of the exception slot before any
\* generated code runs
MaxFacades == 2
MaxObjs == 2
MaxDepth == 2
MaxRaise == 2
MaxCalls == 4

NoFacade == [state |-> "none", self |-> 0, owns |-> FALSE, depth |-> 0, origin |-> "none"]
NoOp == [op |-> "none", src |-> 0, dst |-> 0, before |-> NoFacade, dstBefore |-> NoFacade,
         obj |-> 0, deletes |-> 0, chain |-> <<>>]
NoCheck == [call |-> "none", set |-> 0, before |-> 0, threw |-> 0]

InitRt ==
  /\ facades = [f \in 1..MaxFacades |-> NoFacade]
  /\ deleted = [o \in 1..MaxObjs |-> 0]
  /\ created = 0
  /\ lastOp = NoOp

InitEx ==
  /\ pending = 0
  /\ raised = 0
  /\ thrownCount = [e \in 1..MaxRaise |-> 0]
  /\ lastCheck = NoCheck
  /\ callLog = <<>>

\* no import, nothing in the runtime section, the first run
InitTopIdle ==
  /\ root = <<>>
  /\ sect_runtime = <<>>
  /\ run = 1
  /\ firstRun = <<>>
  /\ f_wrappers_h = <<>>
  /\ parsed = tree

InitGenWith(trees, configs) ==
  /\ tree \in trees
  /\ pos = AtTop(SkipIgnored(tree, 1))
  /\ config \in configs
  /\ sect_wrappers_types = <<>>
  /\ sect_wrappers_decl = <<>>
  /\ sect_wrappers = <<>>
  /\ sect_types = <<>>
  /\ sect_decls = <<>>
  /\ sect_impls = <<>>
  /\ class_wrapper = NoWrapper
  /\ diag = <<>>

InitGen(trees) == InitGenWith(trees, Configs)

Init == InitGen(FacadeTrees) /\ InitRt /\ InitEx /\ InitTopIdle

Next == classHandler \/ functionWrapper \/ classHandlerEnd

Spec == Init /\ [][Next]_vars

\* ---- overloaded functions ----

\* the parameter types the overloads are declared with
ParamTypes == {T_int, T_float, T_fnptr, T_pint, T_enumE, T_pi}

RECURSIVE TypeLists(_)
TypeLists(n) ==
  IF n = 0 THEN {<<>>}
  ELSE {<<>>} \cup { <<t>> \o r : t \in ParamTypes, r \in TypeLists(n - 1) }

Overload(name, types, isconst, storage) ==
  FnNode("cdecl", "function", name, FnDecl(types, isconst), ParmsOf(types, 1),
         storage, 1, FALSE, "ok")

\* two overloads of a free function f, or of a method f of class A
OverloadTrees ==
  { << Overload(N_f, t1, FALSE, ""), Overload(N_f, t2, FALSE, "") >> :
      t1 \in TypeLists(MaxParams), t2 \in TypeLists(MaxParams) }
  \cup
  { << ClassNode(N_A, FALSE, FALSE, <<>>,
                 << Overload(N_f, t1, c1, ""),
                    Overload(N_f, t2, c2 /\ ~st, IF st THEN "static" ELSE "") >>) >> :
      t1 \in TypeLists(MaxParams), t2 \in TypeLists(MaxParams),
      c1 \in BOOLEAN, c2 \in BOOLEAN, st \in BOOLEAN }

\* a declaration of two overloads is legal if their parameter lists differ,
\* or if they are non-static members that differ in constness
LegalOverloads(a, b) ==
  \/ a.parms # b.parms
  \/ a.decl # b.decl /\ a.storage # "static" /\ b.storage # "static"

MangleTrees ==
  { t \in OverloadTrees :
      IF t[1].nodeType = "class"
      THEN LegalOverloads(t[1].members[1], t[1].members[2])
      ELSE LegalOverloads(t[1], t[2]) }

InitMangle == InitGen(MangleTrees) /\ InitRt /\ InitEx /\ InitTopIdle

SpecMangle == InitMangle /\ [][Next]_vars

-----------------------------------------------------------------------------
(* Overload names.                                                          *)

PairIndices == 0..(Len(tree) + MaxMembers)

\* pairs of overloads of one name, both named
OverloadPairs ==
  { p \in (DOMAIN tree) \X PairIndices \X PairIndices :
      LET i == p[1] a == p[2] b == p[3]
      IN  IF tree[i].nodeType = "class"
          THEN /\ a \in 1..Len(tree[i].members) /\ b \in 1..Len(tree[i].members)
               /\ a < b
               /\ tree[i].members[a].ovgroup # 0
               /\ tree[i].members[a].ovgroup = tree[i].members[b].ovgroup
               /\ tree[i].members[a].wrap_name # NoStr
               /\ tree[i].members[b].wrap_name # NoStr
          ELSE /\ a = 0 /\ b \in 1..Len(tree) /\ i < b
               /\ tree[b].nodeType # "class"
               /\ tree[i].ovgroup # 0
               /\ tree[i].ovgroup = tree[b].ovgroup
               /\ tree[i].wrap_name # NoStr
               /\ tree[b].wrap_name # NoStr }

PairFirst(p)  == IF p[2] = 0 THEN tree[p[1]] ELSE tree[p[1]].members[p[2]]
PairSecond(p) == IF p[2] = 0 THEN tree[p[3]] ELSE tree[p[1]].members[p[3]]

\* the types of the declared parameters (the receiver is not among them)
ParmTypes(n) == [k \in 1..Len(n.parms) |-> n.parms[k].type]

\* C1: any two overloads of one name whose parameter type lists differ get
\* different wrapper names.
C1_DistinctOverloadNames ==
  \A p \in OverloadPairs :
    ParmTypes(PairFirst(p)) # ParmTypes(PairSecond(p))
      => PairFirst(p).wrap_name # PairSecond(p).wrap_name

\* the pairs of non-static methods differing by the const of the receiver only
ConstTwins ==
  { p \in OverloadPairs :
      /\ p[2] # 0
      /\ PairFirst(p).storage # "static" /\ PairSecond(p).storage # "static"
      /\ ParmTypes(PairFirst(p)) = ParmTypes(PairSecond(p))
      /\ PairFirst(p).decl # PairSecond(p).decl }

TwinConst(p)    == IF SwigType_isconst(PairFirst(p).decl) THEN PairFirst(p) ELSE PairSecond(p)
TwinNonConst(p) == IF SwigType_isconst(PairFirst(p).decl) THEN PairSecond(p) ELSE PairFirst(p)

RECURSIVE TypeSuffix(_)
\* "_" and the mangled type, for each type in order
TypeSuffix(types) ==
  IF Len(types) = 0 THEN <<>>
  ELSE S_us \o get_mangled_type(Head(types)) \o TypeSuffix(Tail(types))

\* C2: of two methods that differ only by the const of the receiver, the const
\* one is named base + "_const" + suffix and the other base + suffix, where
\* the suffix is built from the declared parameters only; the names differ.
C2_ConstTwinNames ==
  \A p \in ConstTwins :
    LET base   == get_c_proxy_name(config, tree[p[1]]) \o S_us \o TwinConst(p).name
        suffix == TypeSuffix(ParmTypes(TwinConst(p)))
    IN  /\ TwinConst(p).wrap_name = base \o S__const \o suffix
        /\ TwinNonConst(p).wrap_name = base \o suffix
        /\ TwinConst(p).wrap_name # TwinNonConst(p).wrap_name

\* both methods of a const/non-const pair with parameters have been named
C2_Witness ==
  \E p \in ConstTwins : Len(PairFirst(p).parms) > 0

-----------------------------------------------------------------------------
(* Facade classes.                                                          *)

\* positions of the pieces of kind t written for class cls to a section
Pieces(sect, t, cls) == { k \in DOMAIN sect : sect[k].t = t /\ sect[k].cls = cls }

\* positions of all pieces written for class cls to a section
PiecesOf(sect, cls) == { k \in DOMAIN sect : sect[k].cls = cls }

\* the classes of the module that are not ignored
Classes == { i \in DOMAIN tree : tree[i].nodeType = "class" /\ ~tree[i].ignore }

\* classHandler() has returned for class i
Closed(i) == pos.item > i

\* the bases of class i that are not marked feature:ignore, by position
UsableBases(i) ==
  IF tree[i].hasBases
  THEN { k \in 1..Len(tree[i].bases) : ~tree[tree[i].bases[k]].ignore }
  ELSE {}

\* the name each child of class i is wrapped under
ChildWrapperName(i, j) ==
  LET n == tree[i].members[j]
      proxy == IF config.ns_prefix # NoStr THEN config.ns_prefix \o S_us \o tree[i].sym_name
               ELSE tree[i].sym_name
  IN  proxy \o S_us \o
        (IF n.nodeType = "constructor" THEN (IF n.copy_constructor THEN S_copy ELSE S_new)
         ELSE IF n.nodeType = "destructor" THEN S_delete
         ELSE n.sym_name)

C4_OneDeclaration ==
  \A i \in Classes :
    (config.cxx /\ Cardinality(UsableBases(i)) <= 1
       /\ (Closed(i) \/ (pos.item = i /\ pos.phase = "crashed"))) =>
      /\ Cardinality(Pieces(sect_types, "class_fwd", tree[i].sym_name)) = 1
      /\ Cardinality(Pieces(sect_decls, "class_open", tree[i].sym_name)) = 1
      /\ Cardinality(Pieces(sect_decls, "class_close", tree[i].sym_name)) = 1
      /\ \A k \in Pieces(sect_decls, "class_open", tree[i].sym_name) :
           /\ sect_decls[k].flag <=> (Cardinality(UsableBases(i)) = 1)
           /\ \A b \in UsableBases(i) :
                sect_decls[k].name = tree[tree[i].bases[b]].sym_name

\* C7: once the walk has left a class that has a facade declaration, the
\* declaration has a deleted copy constructor exactly if no copy constructor
\* was written to it, one deleted copy assignment, one move constructor and
\* one move assignment.
C7_CopyMovePolicy ==
  \A i \in Classes :
    (Closed(i) /\ Pieces(sect_decls, "class_close", tree[i].sym_name) # {}) =>
      LET cls == tree[i].sym_name
          copies == { k \in Pieces(sect_decls, "ctor", cls) : sect_decls[k].flag }
      IN  /\ (Pieces(sect_decls, "copy_ctor_deleted", cls) # {}) <=> (copies = {})
          /\ Cardinality(Pieces(sect_decls, "copy_ctor_deleted", cls)) <= 1
          /\ Cardinality(Pieces(sect_decls, "copy_assign_deleted", cls)) = 1
          /\ Cardinality(Pieces(sect_decls, "move_ctor", cls)) = 1
          /\ Cardinality(Pieces(sect_decls, "move_assign", cls)) = 1

\* a class with a copy constructor in its facade declaration has been closed
C7_Witness ==
  \E i \in Classes :
    /\ Closed(i)
    /\ Pieces(sect_decls, "class_close", tree[i].sym_name) # {}
    /\ \E k \in Pieces(sect_decls, "ctor", tree[i].sym_name) : sect_decls[k].flag
    /\ Pieces(sect_decls, "copy_ctor_deleted", tree[i].sym_name) = {}

-----------------------------------------------------------------------------
(* The generated facade classes at run time.  A class at depth 1 has no     *)
(* base and holds swig_self_ and swig_owns_self_; a class at depth d > 1    *)
(* derives from the class at depth d - 1.                                   *)

RECURSIVE FromPointer(_, _, _)
\* the constructor from the C object pointer: a derived class passes both
\* arguments on to its base, the root class stores them
FromPointer(depth, swig_self, swig_owns_self) ==
  IF depth > 1 THEN FromPointer(depth - 1, swig_self, swig_owns_self)
  ELSE [self |-> swig_self, owns |-> swig_owns_self]

\* the default value of the swig_owns_self argument
OwnsByDefault == TRUE

\* a facade constructor mirroring a wrapped constructor: classname{wname(args)}
WrapNew(depth, ptr) == FromPointer(depth, ptr, OwnsByDefault)

\* a faulty variant: the returned object owns the pointer
WrapReference_Owning(depth, ptr) == FromPointer(depth, ptr, TRUE)

\* the return expression for a reference to a class: classname{ptr, false}
WrapReference(depth, ptr) == FromPointer(depth, ptr, FALSE)

\* the return expression for a pointer to a class:
\* swig_res ? new classname(swig_res) : nullptr
WrapPointer(depth, swig_res) ==
  IF swig_res # 0 THEN [null |-> FALSE, fields |-> FromPointer(depth, swig_res, OwnsByDefault)]
  ELSE [null |-> TRUE, fields |-> [self |-> 0, owns |-> FALSE]]

\* a faulty variant: the source's flag is cleared before it is read
MoveFields_ClearsFirst(fs, dst, src) ==
  LET f1 == [fs EXCEPT ![src].owns = FALSE]
      f2 == [f1 EXCEPT ![dst].self = f1[src].self]
  IN  [f2 EXCEPT ![dst].owns = f2[src].owns]

\* a faulty variant: the source keeps its ownership flag
MoveFields_KeepSource(fs, dst, src) ==
  LET f1 == [fs EXCEPT ![dst].self = fs[src].self]
  IN  [f1 EXCEPT ![dst].owns = f1[src].owns]

\* The move operations of the root class, statement by statement; the
\* defaulted ones of a derived class apply them to the base subobject.
\*   swig_self_ = obj.swig_self_; swig_owns_self_ = obj.swig_owns_self_;
\*   obj.swig_owns_self_ = false;
MoveFields(fs, dst, src) ==
  LET f1 == [fs EXCEPT ![dst].self = fs[src].self]
      f2 == [f1 EXCEPT ![dst].owns = f1[src].owns]
  IN  [f2 EXCEPT ![src].owns = FALSE]

\* a faulty variant: the destructor of a class with a base leaves the flag set
DtorBody_KeepsFlag(hasBase, owns) ==
  IF owns THEN [deletes |-> 1, owns |-> owns] ELSE [deletes |-> 0, owns |-> owns]

\* One destructor body: the calls of the C delete wrapper it makes and the
\* ownership flag it leaves to the destructor of the base.
DtorBody(hasBase, owns) ==
  IF hasBase
  THEN IF owns THEN [deletes |-> 1, owns |-> FALSE] ELSE [deletes |-> 0, owns |-> owns]
  ELSE IF owns THEN [deletes |-> 1, owns |-> owns] ELSE [deletes |-> 0, owns |-> owns]

RECURSIVE DtorChain(_, _, _, _)
\* the destructors of an object of the class at depth level run from the most
\* derived class to the root
DtorChain(level, owns, deletes, chain) ==
  IF level = 0 THEN [deletes |-> deletes, chain |-> chain]
  ELSE LET r == DtorBody(level > 1, owns)
       IN  DtorChain(level - 1, r.owns, deletes + r.deletes, Append(chain, level))

Live(f) == facades[f].state = "live"

\* f is the next facade object to come into existence
Free(f) ==
  /\ facades[f].state = "none"
  /\ \A g \in 1..(f - 1) : facades[g].state # "none"

Op(op, src, dst, obj) ==
  [NoOp EXCEPT !.op = op, !.src = src, !.dst = dst, !.obj = obj,
               !.before = IF src # 0 THEN facades[src] ELSE NoFacade,
               !.dstBefore = IF dst # 0 THEN facades[dst] ELSE NoFacade]

NewFacade(fields, depth, origin) ==
  [state |-> "live", self |-> fields.self, owns |-> fields.owns, depth |-> depth,
   origin |-> origin]

\* A facade constructor runs: the C constructor wrapper returns a new object
Construct(f, d) ==
  /\ Free(f)
  /\ created < MaxObjs
  /\ created' = created + 1
  /\ facades' = [facades EXCEPT ![f] = NewFacade(WrapNew(d, created + 1), d, "new")]
  /\ lastOp' = Op("construct", 0, f, created + 1)
  /\ UNCHANGED <<deleted, genVars, exVars, topVars>>

\* classname dst{std::move(src)}
MoveConstruct(dst, src) ==
  /\ Free(dst) /\ Live(src) /\ dst # src
  /\ facades' = MoveFields([facades EXCEPT ![dst] = [facades[src] EXCEPT !.origin = "new"]],
                           dst, src)
  /\ lastOp' = Op("move_ctor", src, dst, facades[src].self)
  /\ UNCHANGED <<deleted, created, genVars, exVars, topVars>>

\* dst = std::move(src), for objects of one class; src may be dst itself
MoveAssign(dst, src) ==
  /\ Live(dst) /\ Live(src)
  /\ facades[dst].depth = facades[src].depth
  /\ facades' = MoveFields([facades EXCEPT ![dst].origin = "new"], dst, src)
  /\ lastOp' = Op("move_assign", src, dst, facades[src].self)
  /\ UNCHANGED <<deleted, created, genVars, exVars, topVars>>

\* a facade method returns a reference to the object obj, which is alive
RefReturn(f, d, obj) ==
  /\ Free(f)
  /\ obj \in 1..created /\ deleted[obj] = 0
  /\ facades' = [facades EXCEPT ![f] = NewFacade(WrapReference(d, obj), d, "ref")]
  /\ lastOp' = Op("ref_return", 0, f, obj)
  /\ UNCHANGED <<deleted, created, genVars, exVars, topVars>>

\* a facade method returns the pointer obj (0: a null pointer)
PtrReturn(f, d, obj) ==
  /\ Free(f)
  /\ obj \in 0..created
  /\ obj # 0 => deleted[obj] = 0
  /\ LET r == WrapPointer(d, obj)
     IN  /\ facades' = IF r.null THEN facades
                       ELSE [facades EXCEPT ![f] = NewFacade(r.fields, d, "new")]
         /\ lastOp' = Op("ptr_return", 0, IF r.null THEN 0 ELSE f, obj)
  /\ UNCHANGED <<deleted, created, genVars, exVars, topVars>>

\* a facade object is destroyed
Destroy(f) ==
  /\ Live(f)
  /\ LET r == DtorChain(facades[f].depth, facades[f].owns, 0, <<>>)
     IN  /\ deleted' = [deleted EXCEPT ![facades[f].self] = @ + r.deletes]
         /\ lastOp' = [Op("destroy", f, 0, facades[f].self)
                          EXCEPT !.deletes = r.deletes, !.chain = r.chain]
  /\ facades' = [facades EXCEPT ![f] = [NoFacade EXCEPT !.state = "dead"]]
  /\ UNCHANGED <<created, genVars, exVars, topVars>>

\* the module whose generated code runs: one class, already generated
RuntimeTree == << ClassNode(N_A, FALSE, FALSE, <<>>, <<>>) >>

InitRun ==
  /\ tree = RuntimeTree
  /\ pos = AtTop(2)
  /\ config = Config(TRUE, "enabled", NoStr)
  /\ sect_wrappers_types = <<>> /\ sect_wrappers_decl = <<>> /\ sect_wrappers = <<>>
  /\ sect_types = <<>> /\ sect_decls = <<>> /\ sect_impls = <<>>
  /\ class_wrapper = NoWrapper
  /\ diag = <<>>

InitFacade == InitRun /\ InitRt /\ InitEx /\ InitTopIdle

\* construction, moves, reference returns and destruction
NextOwn ==
  \/ \E f \in 1..MaxFacades, d \in 1..MaxDepth : Construct(f, d)
  \/ \E dst \in 1..MaxFacades, src \in 1..MaxFacades : MoveConstruct(dst, src)
  \/ \E dst \in 1..MaxFacades, src \in 1..MaxFacades : MoveAssign(dst, src)
  \/ \E f \in 1..MaxFacades, d \in 1..MaxDepth, obj \in 1..MaxObjs : RefReturn(f, d, obj)
  \/ \E f \in 1..MaxFacades : Destroy(f)

SpecOwn == InitFacade /\ [][NextOwn]_vars

NextFacade ==
  \/ NextOwn
  \/ \E f \in 1..MaxFacades, d \in 1..MaxDepth, obj \in 0..MaxObjs : PtrReturn(f, d, obj)

SpecFacade == InitFacade /\ [][NextFacade]_vars

\* C5: no two live facade objects own the same underlying object.
C5_SingleOwner ==
  \A o \in 1..MaxObjs :
    Cardinality({ f \in 1..MaxFacades : Live(f) /\ facades[f].self = o /\ facades[f].owns }) <= 1

\* two live facade objects hold the same pointer and one of them owns it
C5_Witness ==
  \E f \in 1..MaxFacades, g \in 1..MaxFacades :
    /\ f # g /\ Live(f) /\ Live(g)
    /\ facades[f].self = facades[g].self
    /\ facades[f].owns /\ ~facades[g].owns

IsMove == lastOp.op \in {"move_ctor", "move_assign"}

\* C6 as stated: after every move the source's flag is false, the
\* destination's flag is the flag the source had and the destination's
\* pointer is the source's pointer.
C6_MoveTransfers ==
  IsMove =>
    /\ ~facades[lastOp.src].owns
    /\ facades[lastOp.dst].owns = lastOp.before.owns
    /\ facades[lastOp.dst].self = lastOp.before.self

\* C6: after a move between two distinct facade objects the source's flag is
\* false, the destination's flag is the flag the source had and the
\* destination's pointer is the source's pointer; after a move assignment of an
\* object to itself its pointer is unchanged and its flag is false.
C6_MoveTransfersDistinct ==
  IsMove =>
    /\ ~facades[lastOp.src].owns
    /\ facades[lastOp.dst].self = lastOp.before.self
    /\ lastOp.src # lastOp.dst => facades[lastOp.dst].owns = lastOp.before.owns
    /\ lastOp.src = lastOp.dst => ~facades[lastOp.dst].owns

\* an owning object has been move-assigned to an object that owned another one
C6_Witness ==
  /\ lastOp.op = "move_assign"
  /\ lastOp.src # lastOp.dst
  /\ lastOp.before.owns
  /\ lastOp.dstBefore.owns
  /\ lastOp.dstBefore.self # lastOp.before.self

\* C8: destroying a facade object runs the destructors from its class down to
\* the root and calls the C delete wrapper once if the object owned its
\* pointer and not at all otherwise.
C8_DeleteOnce ==
  lastOp.op = "destroy" =>
    /\ lastOp.deletes = (IF lastOp.before.owns THEN 1 ELSE 0)
    /\ Len(lastOp.chain) = lastOp.before.depth
    /\ \A k \in 1..Len(lastOp.chain) : lastOp.chain[k] = lastOp.before.depth - k + 1

\* an owning object of a derived class has been destroyed
C8_Witness ==
  /\ lastOp.op = "destroy"
  /\ lastOp.before.owns
  /\ lastOp.before.depth >= 2
  /\ deleted[lastOp.obj] = 1

\* C9: the object returned for a reference does not own the pointer and its
\* destruction deletes nothing; for a pointer, a new owning object is returned
\* if the pointer is not null, and null otherwise.
C9_ReturnWrapping ==
  /\ lastOp.op = "ref_return" =>
       /\ Live(lastOp.dst)
       /\ facades[lastOp.dst].self = lastOp.obj
       /\ ~facades[lastOp.dst].owns
  /\ (lastOp.op = "destroy" /\ lastOp.before.origin = "ref") => lastOp.deletes = 0
  /\ lastOp.op = "ptr_return" =>
       IF lastOp.obj # 0
       THEN /\ lastOp.dst # 0
            /\ Live(lastOp.dst)
            /\ facades[lastOp.dst].self = lastOp.obj
            /\ facades[lastOp.dst].owns
       ELSE lastOp.dst = 0

\* an object returned for a reference has been destroyed while the object it
\* refers to is alive
C9_Witness ==
  /\ lastOp.op = "destroy"
  /\ lastOp.before.origin = "ref"
  /\ deleted[lastOp.obj] = 0

-----------------------------------------------------------------------------
(* The generated exception check at run time.                               *)

\* a faulty variant: the slot is not cleared before throwing
swig_check_NoReset(slot) ==
  IF slot # 0 THEN [pending |-> slot, threw |-> slot] ELSE [pending |-> slot, threw |-> 0]

\* swig_check(): with a pending exception, copy it, reset the slot and throw
\* the copy; otherwise return
swig_check(slot) ==
  IF slot # 0 THEN [pending |-> 0, threw |-> slot] ELSE [pending |-> slot, threw |-> 0]

\* A facade method is called.  The wrapped function may raise, which stores
\* a new exception in the slot; a method that is not exempted then runs
\* swig_check().  The slot is set at most once before it is observed.
FacadeCall(checked, raises) ==
  /\ Len(callLog) < MaxCalls
  /\ raises => (pending = 0 /\ raised < MaxRaise)
  /\ LET set  == IF raises THEN raised + 1 ELSE 0
         slot == IF raises THEN set ELSE pending
         r    == IF checked THEN swig_check(slot) ELSE [pending |-> slot, threw |-> 0]
         rec  == [call |-> IF checked THEN "checked" ELSE "unchecked",
                  set |-> set, before |-> slot, threw |-> r.threw]
     IN  /\ raised' = IF raises THEN raised + 1 ELSE raised
         /\ pending' = r.pending
         /\ thrownCount' = IF r.threw # 0 THEN [thrownCount EXCEPT ![r.threw] = @ + 1]
                           ELSE thrownCount
         /\ lastCheck' = rec
         /\ callLog' = Append(callLog, rec)
  /\ UNCHANGED <<genVars, rtVars, topVars>>

NextExcept == \E checked \in BOOLEAN, raises \in BOOLEAN : FacadeCall(checked, raises)

InitExcept == InitRun /\ InitRt /\ InitEx /\ InitTopIdle

SpecExcept == InitExcept /\ [][NextExcept]_vars

\* C10: a checked call that finds the slot set throws that exception, one that
\* finds it empty throws nothing, and either way the slot is empty afterwards;
\* an exception is thrown at most once, by the first checked call at or after
\* the call that set it.
C10_SlotProtocol ==
  /\ lastCheck.call = "checked" =>
       /\ pending = 0
       /\ lastCheck.threw = lastCheck.before
  /\ \A e \in 1..MaxRaise : thrownCount[e] <= 1
  /\ \A j \in DOMAIN callLog :
       callLog[j].set # 0 =>
         \A k \in j..Len(callLog) :
           IF callLog[k].call = "checked"
                /\ \A m \in j..(k - 1) : callLog[m].call # "checked"
           THEN callLog[k].threw = callLog[j].set
           ELSE callLog[k].threw # callLog[j].set

\* an exception set in an unchecked call was thrown by the next checked call,
\* and a later checked call threw nothing
C10_Witness ==
  \E j \in DOMAIN callLog, k \in DOMAIN callLog, m \in DOMAIN callLog :
    /\ j < k /\ k < m
    /\ callLog[j].call = "unchecked" /\ callLog[j].set # 0
    /\ callLog[k].call = "checked" /\ callLog[k].threw = callLog[j].set
    /\ callLog[m].call = "checked" /\ callLog[m].threw = 0 /\ callLog[m].set = 0

-----------------------------------------------------------------------------
(* Wrapping of functions and variables of every kind: the inputs are a      *)
(* class A with some members, or the class and one declaration next to it.  *)

T_pA == S_ptr \o N_A
T_rA == S_ref \o N_A
N_x  == <<"x">>
N_h  == <<"h">>
N_add   == <<"a","d","d">>
N_ns_f  == N_ns \o S_scope \o N_f
N_ns_x  == N_ns \o S_scope \o N_x

\* parameter and return types: a built-in type, the wrapped class by
\* pointer, by reference and by value, and a type unknown to the tree
WrapTypes == {T_int, T_pA, T_rA, N_A, T_Foo}

RECURSIVE WrapTypeLists(_)
WrapTypeLists(n) ==
  IF n = 0 THEN {<<>>}
  ELSE WrapTypeLists(n - 1)
         \cup { Append(l, t) : l \in { m \in WrapTypeLists(n - 1) : Len(m) = n - 1 },
                                t \in WrapTypes }

\* a function with the given return type, parameter types and "ctype" lookups
WrapFn(name, ret, types, ctype) ==
  [FnNode("cdecl", "function", name, FnDecl(types, FALSE), ParmsOf(types, 1), "", 0,
          FALSE, ctype) EXCEPT !.type = ret]

\* a variable of the given type
VarNode(name, type, storage) ==
  [FnNode("cdecl", "variable", name, <<>>, <<>>, storage, 0, FALSE, "ok")
     EXCEPT !.type = type]

\* the members class A may declare, in declaration order
WrapMemberPool ==
  << Ctor,
     [Ctor EXCEPT !.noexcept = TRUE],
     Method(N_f),
     [Method(N_g) EXCEPT !.noexcept = TRUE],
     [Method(N_g) EXCEPT !.throw = TRUE],
     [Method(N_h) EXCEPT !.throw = TRUE, !.throws = TRUE],
     [WrapFn(N_h, T_pA, <<T_rA>>, "ok") EXCEPT !.storage = "static"],
     [Method(N_h) EXCEPT !.storage = "friend"],
     VarNode(N_x, T_int, ""),
     [VarNode(N_x, T_int, "") EXCEPT !.noexcept = TRUE],
     [VarNode(N_x, T_pA, "") EXCEPT !.immutable = TRUE],
     WrapFn(N_f, T_void, <<T_int>>, "noparm"),
     WrapFn(N_g, T_int, <<>>, "noret"),
     Dtor >>

\* the declarations next to the class
WrapTopPool ==
  { WrapFn(N_f, r, ts, "ok") : r \in WrapTypes \cup {T_void}, ts \in WrapTypeLists(MaxParams) }
  \cup { WrapFn(N_f, r, <<>>, "noret") : r \in WrapTypes }
  \cup { WrapFn(N_f, T_void, ts, "noparm") : ts \in WrapTypeLists(MaxParams) \ {<<>>} }
  \cup { WrapFn(N_add, T_int, <<T_int, T_int>>, "ok"),
         WrapFn(N_f, T_int, <<T_int, T_varargs>>, "ok"),
         WrapFn(N_f, T_void, <<T_varargs>>, "ok"),
         [WrapFn(N_ns_f, T_void, <<>>, "ok") EXCEPT !.sym_name = N_f, !.parent_nspace = TRUE],
         [WrapFn(N_ns_f, T_void, <<>>, "ok") EXCEPT !.sym_name = N_f],
         [WrapFn(N_f, T_void, <<>>, "ok") EXCEPT !.parent_nspace = TRUE],
         VarNode(N_x, T_int, ""),
         VarNode(N_x, T_int, "static"),
         VarNode(N_x, T_pint, ""),
         VarNode(N_x, N_A, ""),
         [VarNode(N_x, T_rA, "") EXCEPT !.immutable = TRUE],
         [VarNode(N_ns_x, T_int, "") EXCEPT !.sym_name = N_x] }

\* the members of a class have different names
NoDupNames(ms) == \A a, b \in 1..Len(ms) : a # b => ms[a].name # ms[b].name

WrapTrees ==
  { << ClassNode(N_A, FALSE, FALSE, <<>>, ms), FreeFn(N_g) >> :
      ms \in { l \in SubSeqsOf(WrapMemberPool, MaxMembers) : NoDupNames(l) } }
  \cup
  { << ClassNode(N_A, FALSE, FALSE, <<>>, <<Ctor>>), t, FreeFn(N_g) >> : t \in WrapTopPool }

\* every combination of the options
WrapConfigs ==
  { Config(cxx, ex, ns) : cxx \in BOOLEAN, ex \in {"enabled", "imported", "disabled"},
                          ns \in {NoStr, N_ns} }

InitWrap == InitGenWith(WrapTrees, WrapConfigs) /\ InitRt /\ InitEx /\ InitTopIdle

NextWrap == Next \/ globalvariableHandler

SpecWrap == InitWrap /\ [][NextWrap]_vars

\* the walk over the tree is over
Done == pos.phase = "top" /\ pos.item > Len(tree)

\* the pieces of a section of one of the given kinds
PiecesOfKind(sect, kinds) == { sect[k] : k \in { m \in 1..Len(sect) : sect[m].t \in kinds } }

MembersOf(cls) == { cls.members[k] : k \in 1..Len(cls.members) }

-----------------------------------------------------------------------------
(* Post-call exception checks in the facade.                                *)

\* the pieces of the facade that hold a body calling a C wrapper
CallingPieces ==
  { t \in PiecesOfKind(sect_impls, {"ctor_impl", "method_impl"})
            \cup PiecesOfKind(sect_decls, {"memberget", "memberset", "varget", "varset"}) :
      TRUE }

\* the member of the class the piece was generated for
MemberOfPiece(t) ==
  CHOOSE m \in MembersOf(tree[1]) :
    \/ t.t = "ctor_impl" /\ m.nodeType = "constructor"
    \/ t.t = "method_impl" /\ m.nodeType = "cdecl" /\ m.kind = "function"
         /\ m.wrap_name = t.name
    \/ t.t \in {"memberget", "memberset", "varget", "varset"} /\ m.kind = "variable"
         /\ m.name = t.name

\* the member is exempt from the check
Exempt(m) == m.noexcept \/ (m.throw /\ ~m.throws)

\* C11: with exception support enabled or imported, the facade body of every
\* member that calls a C wrapper (method, static method, constructor,
\* variable accessor) holds the post-call check, unless the member is
\* noexcept or has throw set and no throws list, and then it holds none
C11_PostCallCheck ==
  config.except # "disabled" =>
    \A t \in CallingPieces : t.flag = ~Exempt(MemberOfPiece(t))

-----------------------------------------------------------------------------
(* Declarations that cannot be wrapped.                                     *)

\* the top-level functions and the members of the class, once wrapped
WrappedNodes ==
  { tree[i] : i \in { k \in 1..Len(tree) : tree[k].nodeType # "class" /\ pos.item > k } }
    \cup { m \in MembersOf(tree[1]) : m.wrap_name # NoStr }

\* the pieces of a section written for the wrapper of the given name
PiecesNamed(sect, name) == { sect[k] : k \in { m \in 1..Len(sect) : sect[m].name = name } }

IsVararg(n) == \E k \in 1..Len(n.parms) : n.parms[k].type = T_varargs

\* some "ctype" typemap lookup of the node fails
LacksCtype(n) ==
  \/ n.ctype = "noret" /\ n.type # T_void
  \/ n.ctype = "noparm" /\ Len(n.parms) > 0

\* nothing was written for the wrapper of n: no C definition, no C
\* declaration, no member of the facade
NoWrapperFor(n) ==
  /\ PiecesNamed(sect_wrappers, n.wrap_name) = {}
  /\ PiecesNamed(sect_wrappers_decl, n.wrap_name) = {}
  /\ PiecesNamed(sect_decls, n.wrap_name) = {}
  /\ PiecesNamed(sect_impls, n.wrap_name) = {}

\* the declaration after the rejected one has its complete definition and
\* declaration
FollowerEmitted ==
  Done => \E d \in PiecesNamed(sect_wrappers, tree[Len(tree)].wrap_name),
             h \in PiecesNamed(sect_wrappers_decl, tree[Len(tree)].wrap_name) :
            d.sig.closed /\ h.sig.closed

\* C13: a function with a variable argument list is rejected with a
\* diagnostic and gets no wrapper (nothing in the C definitions, the C
\* declarations and the facade); the declarations after it are emitted
C13_VarargRejected ==
  \A n \in WrappedNodes :
    IsVararg(n) =>
      /\ \E k \in 1..Len(diag) : diag[k].w = "vararg_error" /\ diag[k].name = n.name
      /\ NoWrapperFor(n)
      /\ FollowerEmitted

\* C14: a function whose return type or parameter type has no "ctype"
\* typemap gets a diagnostic naming the type and is skipped: no C
\* definition, no C declaration, no facade member
C14_MissingCtypeSkipped ==
  \A n \in WrappedNodes :
    LacksCtype(n) =>
      /\ \E k \in 1..Len(diag) :
           /\ diag[k].w = "ctype_undef"
           /\ diag[k].name \in {SwigType_str(n.type)}
                                 \cup { SwigType_str(n.parms[p].type) : p \in 1..Len(n.parms) }
      /\ NoWrapperFor(n)

-----------------------------------------------------------------------------
(* Definition and declaration of a wrapper.                                 *)

\* the positions in a section of the pieces of kind t with the given name
Positions(sect, t, name) == { k \in 1..Len(sect) : sect[k].t = t /\ sect[k].name = name }

\* the completed definitions of the C wrappers
CompleteDefs ==
  { sect_wrappers[k] : k \in { m \in 1..Len(sect_wrappers) :
                                 sect_wrappers[m].t = "def" /\ sect_wrappers[m].sig.closed } }

\* the declaration of the wrapper of the given name
DeclOf(name) == sect_wrappers_decl[CHOOSE k \in Positions(sect_wrappers_decl, "decl", name) : TRUE]

\* one definition and one declaration carry the name
OnePair(name) ==
  /\ Cardinality(Positions(sect_wrappers, "def", name)) = 1
  /\ Cardinality(Positions(sect_wrappers_decl, "decl", name)) = 1

\* the two signatures have the same parameters in the same order
SameParms(d, h) ==
  /\ Len(d.sig.parms) = Len(h.sig.parms)
  /\ \A k \in 1..Len(d.sig.parms) : d.sig.parms[k].name = h.sig.parms[k].name

\* the type text of a declaration with the name of the wrapped class, or of
\* the opaque type standing for an unknown one, replaced by SwigObj
AsInDefinition(text) ==
  Replaceall(Replaceall(text, S_SWIGTYPE \o SwigType_manglestr(S_ptr \o T_Foo), S_SwigObj),
             get_c_proxy_name(config, tree[1]), S_SwigObj)

-----------------------------------------------------------------------------
(* Wrapper names.                                                           *)

\* the prefix of a declaration that is no member: the mangled namespace when
\* the parent has feature:nspace and the name is qualified, else the global
\* prefix when there is one, else the module name
ExpectedPrefix(n) ==
  IF n.parent_nspace /\ Contains(n.name, S_scope)
  THEN Swig_name_mangle(Swig_scopename_prefix(n.name))
  ELSE IF config.ns_prefix # NoStr THEN config.ns_prefix
  ELSE config.module_name

\* the names Language gives to a member of the class before functionWrapper()
MemberSymNames(m) ==
  { get_c_proxy_name(config, tree[1]) \o S_us \o suffix :
      suffix \in IF m.nodeType = "constructor" THEN {S_new}
                 ELSE IF m.nodeType = "destructor" THEN {S_delete}
                 ELSE IF m.kind = "variable"
                      THEN {m.sym_name \o S_get} \cup (IF m.immutable THEN {}
                                                       ELSE {m.sym_name \o S_set})
                 ELSE {m.sym_name} }

\* the name the accessors of a global variable are given before
\* functionWrapper(), without "_get" and "_set"
GlobalVarSymName(n) ==
  IF config.ns_prefix # NoStr THEN config.ns_prefix \o S_us \o n.sym_name ELSE n.sym_name

\* C16: members, constructors and destructors of the class being processed
\* and variable getters and setters keep the name they are given; every
\* other declaration gets prefix + "_" + name, the prefix being the mangled
\* namespace (parent with nspace, qualified name), else the global prefix,
\* else the module name; add in module m is wrapped as m_add
C16_WrapperNames ==
  /\ \A m \in MembersOf(tree[1]) :
       m.wrap_name # NoStr =>
         IF m.storage = "friend" THEN m.wrap_name = ExpectedPrefix(m) \o S_us \o m.sym_name
         ELSE /\ m.wrap_name \in MemberSymNames(m)
              /\ Positions(sect_wrappers, "def", m.wrap_name) # {}
  /\ \A i \in 2..Len(tree) :
       pos.item > i =>
         IF tree[i].kind = "variable"
         THEN tree[i].wrap_name # NoStr =>
                /\ Positions(sect_wrappers, "def", GlobalVarSymName(tree[i]) \o S_get) # {}
                /\ ~tree[i].immutable =>
                     Positions(sect_wrappers, "def", GlobalVarSymName(tree[i]) \o S_set) # {}
         ELSE tree[i].wrap_name = ExpectedPrefix(tree[i]) \o S_us \o tree[i].sym_name

\* the free function add of module m, wrapped without namespace option
C16_Witness ==
  /\ Done
  /\ config.ns_prefix = NoStr
  /\ tree[2].name = N_add
  /\ tree[2].wrap_name = N_mod \o S_us \o N_add
  /\ Positions(sect_wrappers, "def", N_mod \o S_us \o N_add) # {}

-----------------------------------------------------------------------------
(* The start of top(): exception support and imported modules.              *)

\* bounds of the children of the module root
MaxRootChildren == 2
MaxNest == 2

RootNode(nodeType, module, children) ==
  [nodeType |-> nodeType, module |-> module, children |-> children]

\* an import node with and without "module" attribute, and another node
RootLeaves ==
  { RootNode("import", TRUE, <<>>), RootNode("import", FALSE, <<>>),
    RootNode("namespace", FALSE, <<>>) }

RECURSIVE Included(_)
\* an import, with and without "module" attribute, inside n include nodes
\* or fewer
Included(n) ==
  IF n = 0 THEN {}
  ELSE { RootNode("include", FALSE, <<c>>) :
           c \in { RootNode("import", TRUE, <<>>), RootNode("import", FALSE, <<>>) }
                    \cup Included(n - 1) }

\* the children of the root: the leaves, an empty include, a named import
\* inside a node that is no include, a named import that is the second
\* child of an include, and the nested includes
RootNodes(n) ==
  RootLeaves
    \cup { RootNode("include", FALSE, <<>>),
           RootNode("namespace", FALSE, <<RootNode("import", TRUE, <<>>)>>),
           RootNode("include", FALSE,
                    <<RootNode("namespace", FALSE, <<>>), RootNode("import", TRUE, <<>>)>>) }
    \cup Included(n)

RECURSIVE RootLists(_, _)
RootLists(S, n) ==
  IF n = 0 THEN {<<>>}
  ELSE {<<>>} \cup { <<x>> \o r : x \in S, r \in RootLists(S, n - 1) }

Roots == RootLists(RootNodes(MaxNest), MaxRootChildren)

RECURSIVE find_first_named_import_FlatOnly(_)
\* a faulty variant: included files are not searched
find_first_named_import_FlatOnly(children) ==
  IF Len(children) = 0 THEN FALSE
  ELSE IF Head(children).nodeType = "import" /\ Head(children).module THEN TRUE
  ELSE find_first_named_import_FlatOnly(Tail(children))

RECURSIVE find_first_named_import(_)
\* find_first_named_import(parent) is not NULL, for the children of parent
find_first_named_import(children) ==
  IF Len(children) = 0 THEN FALSE
  ELSE IF Head(children).nodeType = "import"
       THEN IF Head(children).module THEN TRUE
            ELSE find_first_named_import(Tail(children))
  ELSE IF Head(children).nodeType = "include"
       THEN IF find_first_named_import(Head(children).children) THEN TRUE
            ELSE find_first_named_import(Tail(children))
  ELSE find_first_named_import(Tail(children))

\* exceptions_support_ after the search for imported modules
ExceptionsSupport(cfg, imports) ==
  IF cfg.except = "enabled" /\ imports THEN "imported" ELSE cfg.except

\* what the start of top() prints into the runtime section
RuntimeDefines(cfg, imports) ==
  IF cfg.except # "enabled" THEN <<>>
  ELSE <<Tok("define_SWIG_CException_Raise", NoStr,
             IF cfg.ns_prefix # NoStr THEN cfg.ns_prefix ELSE cfg.module_name, FALSE)>>
       \o (IF imports THEN <<Tok("define_SWIG_CException_DEFINED", NoStr, NoStr, FALSE)>>
           ELSE <<>>)

\* cxx_wrappers::initialize_exceptions(support): the definition of
\* swig_check() is printed for exceptions_support_enabled only
initialize_exceptions(support) ==
  IF support = "enabled" THEN <<Tok("swig_check_def", NoStr, NoStr, FALSE)>> ELSE <<>>

\* what the constructor and the destructor of cplusplus_output_guard write
ExternCBegin == Tok("extern_c_begin", NoStr, NoStr, FALSE)
ExternCEnd   == Tok("extern_c_end", NoStr, NoStr, FALSE)

\* top(n) up to the call of Language::top(n)
top ==
  /\ pos.phase = "start"
  /\ config' = [config EXCEPT
                  !.except = ExceptionsSupport(config, find_first_named_import(root))]
  /\ sect_runtime' = sect_runtime
                       \o RuntimeDefines(config, find_first_named_import(root))
  /\ sect_impls' = IF config.cxx
                   THEN sect_impls \o initialize_exceptions(
                          ExceptionsSupport(config, find_first_named_import(root)))
                   ELSE sect_impls
  /\ f_wrappers_h' = Append(f_wrappers_h, Tok("include_guard_begin", NoStr,
                                                config.module_name, FALSE))
  /\ sect_wrappers' = Append(sect_wrappers, ExternCBegin)
  /\ sect_wrappers_decl' = Append(sect_wrappers_decl, ExternCBegin)
  /\ pos' = AtTop(SkipIgnored(tree, 1))
  /\ UNCHANGED <<tree, sect_wrappers_types, sect_types,
                 sect_decls, class_wrapper, diag, root, run, firstRun, parsed, rtVars, exVars>>

\* class A with two methods, one of them noexcept
TopTrees ==
  { << ClassNode(N_A, FALSE, FALSE, <<>>, ms) >> :
      ms \in { <<Method(N_f)>>, <<Method(N_f), [Method(N_g) EXCEPT !.noexcept = TRUE]>> } }

\* the options before top(): exceptions are enabled or disabled
TopConfigs ==
  { Config(cxx, ex, ns) : cxx \in BOOLEAN, ex \in {"enabled", "disabled"},
                          ns \in {NoStr, N_ns} }

InitTop ==
  /\ tree \in TopTrees
  /\ config \in TopConfigs
  /\ root \in Roots
  /\ pos = [AtTop(1) EXCEPT !.phase = "start"]
  /\ sect_wrappers_types = <<>>
  /\ sect_wrappers_decl = <<>>
  /\ sect_wrappers = <<>>
  /\ sect_types = <<>>
  /\ sect_decls = <<>>
  /\ sect_impls = <<>>
  /\ sect_runtime = <<>>
  /\ class_wrapper = NoWrapper
  /\ diag = <<>>
  /\ run = 1
  /\ firstRun = <<>>
  /\ f_wrappers_h = <<>>
  /\ parsed = tree
  /\ InitRt /\ InitEx

NextTop == top \/ Next

SpecTop == InitTop /\ [][NextTop]_vars

\* a named import is a child of the root, or of an include node reachable
\* from the root through include nodes only
RECURSIVE NamedImportReachable(_)
NamedImportReachable(children) ==
  \E k \in 1..Len(children) :
    \/ children[k].nodeType = "import" /\ children[k].module
    \/ children[k].nodeType = "include" /\ NamedImportReachable(children[k].children)

\* how many times the definition of swig_check() was written
CheckDefinitions == Cardinality(Positions(sect_impls, "swig_check_def", NoStr))

\* the bodies of the methods that are not noexcept call swig_check()
CallsInjected ==
  \A k \in 1..Len(sect_impls) :
    sect_impls[k].t = "method_impl" =>
      sect_impls[k].flag = ~Exempt(MemberOfPiece(sect_impls[k]))

\* C12: the definition of the checking function is written once when the
\* facade and exception support are enabled and no named import is
\* reachable from the root through include nodes; it is not written when
\* there is such an import, while the calls are still injected; it is never
\* written when exception support is disabled
C12_CheckDefinedOnce ==
  pos.phase # "start" =>
    /\ CheckDefinitions =
         IF config.cxx /\ config.except # "disabled" /\ ~NamedImportReachable(root)
         THEN 1 ELSE 0
    /\ config.except = "imported" <=> NamedImportReachable(root) /\ config.except # "disabled"
    /\ config.cxx /\ config.except # "disabled" => CallsInjected

\* a module importing a named module through two nested included files: no
\* definition, and a call in the body of the method
C12_Witness ==
  /\ Done
  /\ config.cxx
  /\ config.except = "imported"
  /\ root = << RootNode("include", FALSE,
                 << RootNode("include", FALSE, << RootNode("import", TRUE, <<>>) >>) >>) >>
  /\ CheckDefinitions = 0
  /\ \E k \in 1..Len(sect_impls) : sect_impls[k].t = "method_impl" /\ sect_impls[k].flag

-----------------------------------------------------------------------------
(* Enumerations: enumDeclaration() and enumvalueDeclaration().              *)

cindent      == <<" "," ">>
E_typedef    == <<"t","y","p","e","d","e","f"," ">>
E_enum       == <<"e","n","u","m">>
E_open       == <<" ","{","\n">>
E_comma      == <<",","\n">>
E_assign     == <<" ","="," ">>
E_nl         == <<"\n">>
E_close      == <<"}">>
E_end        == <<";","\n","\n">>
E_quote      == <<"'">>
E_backslash  == <<"\\">>
E_true       == <<"t","r","u","e">>
E_false      == <<"f","a","l","s","e">>
E_one        == <<"1">>
E_zero       == <<"0">>
T_bool       == <<"b","o","o","l">>
T_char       == <<"c","h","a","r">>

\* an enum item as the parser leaves it in the tree
EnumItem(sym_name, type, value) ==
  [ nodeType      |-> "enumitem",
    sym_name      |-> sym_name,
    ignore        |-> FALSE,          \* feature:ignore
    ismember      |-> FALSE,
    access        |-> "public",
    type          |-> type,
    enumvalue     |-> value,          \* NoStr when the item has no explicit value
    firstenumitem |-> FALSE ]

\* an enum declaration; sym:name is the typedef name when there is one
EnumNode(name, unnamed, tdname, scopedenum, items) ==
  [ nodeType   |-> "enum",
    kind       |-> "",                \* an enum has no "kind" attribute
    name       |-> name,
    sym_name   |-> IF tdname # NoStr THEN tdname ELSE name,
    unnamed    |-> unnamed,
    tdname     |-> tdname,
    scopedenum |-> scopedenum,
    access     |-> "public",          \* cplus_mode when the enum is visited
    ignore     |-> FALSE,
    items      |-> items ]

\* the parser flags the first item of every enum
FlagFirst(items) ==
  [k \in 1..Len(items) |-> [items[k] EXCEPT !.firstenumitem = (k = 1)]]

\* the members of a class are flagged as such, with their access
AsMember(item, access) == [item EXCEPT !.ismember = TRUE, !.access = access]

AsMembers(items, access) == [k \in 1..Len(items) |-> AsMember(items[k], access)]

\* an enum declared in a section of a class with the given access
NestedEnum(e, access) ==
  [e EXCEPT !.access = access, !.items = AsMembers(e.items, access)]

RECURSIVE Swig_string_escape(_)
\* the %(escape)s format: backslashes and quotes get a backslash
Swig_string_escape(s) ==
  IF Len(s) = 0 THEN <<>>
  ELSE (IF Head(s) \in {"\\", "'", "\""} THEN E_backslash ELSE <<>>)
         \o <<Head(s)>> \o Swig_string_escape(Tail(s))

\* cvalue in enumvalueDeclaration(): the value as it is written to C, NoStr
\* standing for the null pointer left after Swig_error()
EnumCValue(item) ==
  IF item.type = T_bool
  THEN IF item.enumvalue = E_true THEN E_one
       ELSE IF item.enumvalue = E_false THEN E_zero
       ELSE NoStr
  ELSE IF item.type = T_char
  THEN E_quote \o Swig_string_escape(item.enumvalue) \o E_quote
  ELSE item.enumvalue

\* the diagnostics of enumvalueDeclaration()
EnumValueErrors(item) ==
  IF item.enumvalue # NoStr /\ EnumCValue(item) = NoStr
  THEN <<Warn("unsupported_bool_enum_value", NoStr, item.sym_name)>>
  ELSE <<>>

\* Printv(enum_decl, " = ", cvalue.get(), NIL): a null cvalue ends the
\* argument list, so that only " = " is printed
PrintValue(item) ==
  IF item.enumvalue = NoStr THEN <<>>
  ELSE E_assign \o (IF EnumCValue(item) = NoStr THEN <<>> ELSE EnumCValue(item))

\* emit_one() skips ignored nodes, enumvalueDeclaration() returns at once
\* for the members that are not public
ItemSkipped(item) ==
  item.ignore \/ (item.ismember /\ item.access # "public")

\* what enumvalueDeclaration(n) appends to enum_decl with the given prefix
\* and indent
EnumValueText(item, prefix_, indent) ==
  (IF item.firstenumitem THEN <<>> ELSE E_comma)
    \o indent \o cindent \o prefix_ \o item.sym_name \o PrintValue(item)

RECURSIVE EmitItems(_, _, _)
\* Language::enumDeclaration(n): the text of the items that are not skipped
EmitItems(items, prefix_, indent) ==
  IF Len(items) = 0 THEN <<>>
  ELSE (IF ItemSkipped(Head(items)) THEN <<>>
        ELSE EnumValueText(Head(items), prefix_, indent))
         \o EmitItems(Tail(items), prefix_, indent)

RECURSIVE EmitItemErrors(_)
EmitItemErrors(items) ==
  IF Len(items) = 0 THEN <<>>
  ELSE (IF ItemSkipped(Head(items)) THEN <<>> ELSE EnumValueErrors(Head(items)))
         \o EmitItemErrors(Tail(items))

\* the enum has a name to print
EnumNamed(n) == ~n.unnamed /\ n.name # NoStr

\* a faulty variant: the module name stands in for a missing ns_prefix
EnumScopePrefix_ModuleName(cfg, inClass, klass) ==
  IF inClass THEN get_c_proxy_name(cfg, klass)
  ELSE IF cfg.ns_prefix # NoStr THEN cfg.ns_prefix ELSE cfg.module_name

\* enum_prefix before the name of the enum is looked at: the proxy name of
\* the current class, else ns_prefix, which may be null
EnumScopePrefix(cfg, inClass, klass) ==
  IF inClass THEN get_c_proxy_name(cfg, klass) ELSE cfg.ns_prefix

\* enumname as printed in the C declaration
EnumCName(n, scope) ==
  IF scope # NoStr THEN scope \o S_us \o Swig_scopename_last(n.name)
  ELSE Swig_scopename_last(n.name)

\* enum_prefix_: the prefix of the items, with its underscore
EnumItemPrefix(n, scope) ==
  IF EnumNamed(n) /\ n.scopedenum THEN EnumCName(n, scope) \o S_us
  ELSE IF scope # NoStr THEN scope \o S_us
  ELSE <<>>

\* enum_decl up to and including " {\n"
EnumHead(n, cname) ==
  (IF n.tdname # NoStr THEN E_typedef ELSE <<>>) \o E_enum
    \o (IF EnumNamed(n) THEN S_space \o cname ELSE <<>>) \o E_open

\* what follows the items, tdprefix_ being put before the typedef name
EnumTail(n, tdprefix_, indent) ==
  E_nl \o indent \o E_close
    \o (IF n.tdname # NoStr THEN S_space \o tdprefix_ \o n.tdname ELSE <<>>)
    \o E_end

\* the C declaration of the enum, <<>> when no item was emitted
EnumDeclText(n, scope) ==
  IF EmitItems(n.items, EnumItemPrefix(n, scope), <<>>) = <<>> THEN <<>>
  ELSE EnumHead(n, EnumCName(n, scope))
         \o EmitItems(n.items, EnumItemPrefix(n, scope), <<>>)
         \o EnumTail(n, EnumItemPrefix(n, scope), <<>>)

\* the C++ declaration of the enum, <<>> when no item was emitted
CxxEnumDeclText(n, indent) ==
  IF EmitItems(n.items, <<>>, indent) = <<>> THEN <<>>
  ELSE indent \o EnumHead(n, Swig_scopename_last(n.name))
         \o EmitItems(n.items, <<>>, indent)
         \o EnumTail(n, <<>>, indent)

\* a faulty variant: the declaration is appended even when it is empty
AppendDecl_Always(sect, t, cls, text) == Append(sect, Tok(t, cls, text, FALSE))

\* a declaration is appended to a section when it is not empty
AppendDecl(sect, t, cls, text) ==
  IF text = <<>> THEN sect ELSE Append(sect, Tok(t, cls, text, FALSE))

\* the position after the node the walk is at
NextPos == IF pos.phase = "class" THEN InClass(pos.item, pos.member + 1)
           ELSE AtTop(SkipIgnored(tree, pos.item + 1))

\* the walk is at an enum
AtEnum ==
  \/ /\ pos.phase = "class" /\ pos.member <= Len(tree[pos.item].members)
     /\ tree[pos.item].members[pos.member].nodeType = "enum"
  \/ /\ pos.phase = "top" /\ pos.item <= Len(tree)
     /\ tree[pos.item].nodeType = "enum"

\* enumDeclaration(n) with the calls of enumvalueDeclaration() for its
\* items; inputs are not in import mode.  An enum of a section of the class
\* that is not public is not wrapped.
enumDeclarationOf(n, inClass, cls, indent) ==
  IF inClass /\ n.access # "public"
  THEN UNCHANGED <<sect_wrappers_types, sect_types, sect_decls, diag>>
  ELSE /\ sect_wrappers_types' =
            AppendDecl(sect_wrappers_types, "enum", cls,
                       EnumDeclText(n, EnumScopePrefix(config, inClass, tree[pos.item])))
       /\ sect_decls' = IF config.cxx /\ class_wrapper.live
                        THEN AppendDecl(sect_decls, "cxx_enum", cls, CxxEnumDeclText(n, indent))
                        ELSE sect_decls
       /\ sect_types' = IF config.cxx /\ ~class_wrapper.live
                        THEN AppendDecl(sect_types, "cxx_enum", cls, CxxEnumDeclText(n, indent))
                        ELSE sect_types
       /\ diag' = diag \o EmitItemErrors(n.items)

enumDeclaration ==
  /\ AtEnum
  /\ enumDeclarationOf(CurrentNode, pos.phase = "class",
                       IF pos.phase = "class" THEN tree[pos.item].sym_name ELSE NoStr,
                       IF class_wrapper.live THEN cindent ELSE <<>>)
  /\ pos' = NextPos
  /\ UNCHANGED <<tree, config, sect_wrappers_decl, sect_wrappers, sect_impls, class_wrapper,
                 rtVars, exVars, topVars>>

\* the number of items of an enum
MaxItems == 3

N_RED   == <<"R","E","D">>
N_GREEN == <<"G","R","E","E","N">>
N_BLUE  == <<"B","L","U","E">>
N_Color == <<"C","o","l","o","r">>
N_Color_t == <<"C","o","l","o","r","_","t">>
N_A_Color == N_A \o S_scope \o N_Color
N_unnamed == <<"$","u","n","n","a","m","e","d","1","$">>
N_gfx   == <<"g","f","x">>
V_two   == <<"2">>
V_expr  == <<"!","0">>
V_a     == <<"a">>

Ignored(item) == [item EXCEPT !.ignore = TRUE]

\* the items an enum may have at each place: plain ones, ignored ones, and
\* items of type int, bool and char with a value
ItemChoices(k) ==
  IF k = 1 THEN { EnumItem(N_RED, T_int, NoStr), Ignored(EnumItem(N_RED, T_int, NoStr)) }
  ELSE IF k = 2
  THEN { EnumItem(N_GREEN, T_int, NoStr), EnumItem(N_GREEN, T_int, V_two),
         EnumItem(N_GREEN, T_bool, E_true), EnumItem(N_GREEN, T_bool, V_expr),
         Ignored(EnumItem(N_GREEN, T_int, NoStr)) }
  ELSE IF k = 3
  THEN { EnumItem(N_BLUE, T_int, NoStr), EnumItem(N_BLUE, T_bool, E_false),
         EnumItem(N_BLUE, T_char, V_a), EnumItem(N_BLUE, T_char, E_quote) }
  ELSE { EnumItem(N_BLUE \o <<ToString(k)>>, T_int, NoStr) }

RECURSIVE ItemLists(_)
\* for each of the places from k on, an item or none
ItemLists(k) ==
  IF k > MaxItems THEN {<<>>}
  ELSE ItemLists(k + 1) \cup { <<x>> \o r : x \in ItemChoices(k), r \in ItemLists(k + 1) }

\* the parser puts firstenumitem on the first item that is not ignored
FirstKept(items) ==
  IF \E k \in 1..Len(items) : ~items[k].ignore
  THEN CHOOSE k \in 1..Len(items) :
         ~items[k].ignore /\ \A h \in 1..(k - 1) : items[h].ignore
  ELSE 0

FlagFirstKept(items) ==
  [k \in 1..Len(items) |-> [items[k] EXCEPT !.firstenumitem = (k = FirstKept(items))]]

\* enum Color, enum class Color, typedef enum Color {} Color_t, and an enum
\* with no name
EnumShapes(name, items) ==
  { EnumNode(name, FALSE, NoStr, FALSE, items),
    EnumNode(name, FALSE, NoStr, TRUE, items),
    EnumNode(name, FALSE, N_Color_t, FALSE, items),
    EnumNode(N_unnamed, TRUE, NoStr, FALSE, items) }

GlobalEnums ==
  UNION { EnumShapes(N_Color, FlagFirstKept(items)) : items \in ItemLists(1) }

MemberEnums ==
  { NestedEnum(e, access) :
      e \in UNION { EnumShapes(N_A_Color, FlagFirstKept(items)) : items \in ItemLists(1) },
      access \in {"public", "private"} }

\* a second enum of the module
OtherEnum ==
  EnumNode(N_B, FALSE, NoStr, FALSE, FlagFirstKept(<<EnumItem(N_C, T_int, NoStr)>>))

EnumTrees ==
  { <<e, OtherEnum, FreeFn(N_g)>> : e \in GlobalEnums }
    \cup { <<ClassNode(N_A, FALSE, FALSE, <<>>, <<Ctor, e, Method(N_f)>>), OtherEnum>> :
             e \in MemberEnums }

EnumConfigs ==
  { Config(cxx, "disabled", ns) : cxx \in BOOLEAN, ns \in {NoStr, N_ns, N_gfx} }

InitEnum == InitGenWith(EnumTrees, EnumConfigs) /\ InitRt /\ InitEx /\ InitTopIdle

NextEnum == Next \/ enumDeclaration

SpecEnum == InitEnum /\ [][NextEnum]_vars

-----------------------------------------------------------------------------
(* Enums with and without emitted items.                                    *)

\* the items of enum n that are emitted
Survivors(n) == { k \in 1..Len(n.items) : ~ItemSkipped(n.items[k]) }

\* how many pieces of kind t the section holds
CountOf(sect, t) == Cardinality({ k \in 1..Len(sect) : sect[k].t = t })

\* the pieces of all sections, as a tuple of the six sections
AllSections ==
  <<sect_wrappers_types, sect_wrappers_decl, sect_wrappers, sect_types, sect_decls,
    sect_impls>>

\* C17: the visit of an enum none of whose items is emitted appends nothing
\* to any section; the visit of an enum with an emitted item appends exactly
\* one C declaration and nothing else to the C types section, and exactly
\* one C++ declaration to the facade sections when the facade is enabled
C17_EnumDeclaredOnce ==
  [][AtEnum =>
       IF Survivors(CurrentNode) = {}
       THEN UNCHANGED AllSections
       ELSE /\ Len(sect_wrappers_types') = Len(sect_wrappers_types) + 1
            /\ CountOf(sect_wrappers_types', "enum") = CountOf(sect_wrappers_types, "enum") + 1
            /\ Len(sect_types') + Len(sect_decls')
                 = Len(sect_types) + Len(sect_decls) + (IF config.cxx THEN 1 ELSE 0)
            /\ CountOf(sect_types', "cxx_enum") + CountOf(sect_decls', "cxx_enum")
                 = CountOf(sect_types, "cxx_enum") + CountOf(sect_decls, "cxx_enum")
                     + (IF config.cxx THEN 1 ELSE 0)
            /\ UNCHANGED <<sect_wrappers_decl, sect_wrappers, sect_impls>>]_vars

\* a module with the facade whose first enum has only ignored items and
\* whose second enum has an item: one C and one C++ declaration once both
\* were visited
C17_Witness ==
  /\ pos.phase = "top" /\ pos.item = 3
  /\ config.cxx
  /\ tree[1].nodeType = "enum" /\ Len(tree[1].items) = 2 /\ Survivors(tree[1]) = {}
  /\ tree[2].nodeType = "enum" /\ Survivors(tree[2]) # {}
  /\ CountOf(sect_wrappers_types, "enum") = 1
  /\ CountOf(sect_types, "cxx_enum") = 1
  /\ sect_decls = <<>>

-----------------------------------------------------------------------------
(* The names in the declarations of an enum.                                *)

\* name with the prefix and an underscore before it, when there is a prefix
Flat(prefix, name) == IF prefix = NoStr THEN name ELSE prefix \o S_us \o name

\* text has a line that begins with lead and name, the name ending there
HasName(text, lead, name) ==
  \E d \in {",", "\n", " "} : Contains(text, E_nl \o lead \o name \o <<d>>)

\* the text begins with the enum keyword, after typedef where the enum has a
\* typedef name, and the given name
DeclaresEnum(text, n, indent, name) ==
  StartsWith(text, indent \o (IF n.tdname # NoStr THEN E_typedef ELSE <<>>)
                     \o E_enum \o S_space \o name \o E_open)

\* the prefix of an enum and its items: the proxy name of the enclosing
\* class, and global for the enums outside classes
PrefixOf(n, global) ==
  IF pos.phase = "class" THEN get_c_proxy_name(config, tree[pos.item]) ELSE global

\* the prefix of the items: the flat name of a scoped enum
ItemPrefixOf(n, global) ==
  IF n.scopedenum THEN Flat(PrefixOf(n, global), Swig_scopename_last(n.name))
  ELSE PrefixOf(n, global)

\* the C declaration names the enum and each emitted item with the prefix
FlatNames(text, n, global) ==
  /\ EnumNamed(n) =>
       DeclaresEnum(text, n, <<>>, Flat(PrefixOf(n, global), Swig_scopename_last(n.name)))
  /\ \A k \in Survivors(n) :
       HasName(text, cindent, Flat(ItemPrefixOf(n, global), n.items[k].sym_name))

\* the C++ declaration names the enum and each emitted item without prefix
PlainNames(text, n, indent) ==
  /\ EnumNamed(n) => DeclaresEnum(text, n, indent, Swig_scopename_last(n.name))
  /\ \A k \in Survivors(n) : HasName(text, indent \o cindent, n.items[k].sym_name)

\* the declaration a step appended to the section
Appended(before, after) == after[Len(after)].name

\* the C++ declaration a step appended to one of the facade sections
AppendedCxx ==
  IF Len(sect_decls') > Len(sect_decls) THEN Appended(sect_decls, sect_decls')
  ELSE Appended(sect_types, sect_types')

\* the visit of an enum that is declared names it as said, the enums outside
\* classes having the prefix global
EnumNamesWith(global) ==
  AtEnum /\ Len(sect_wrappers_types') > Len(sect_wrappers_types) =>
    /\ FlatNames(Appended(sect_wrappers_types, sect_wrappers_types'), CurrentNode, global)
    /\ config.cxx =>
         PlainNames(AppendedCxx, CurrentNode, IF pos.phase = "class" THEN cindent ELSE <<>>)

-----------------------------------------------------------------------------
(* The values of enum items.                                                *)

\* the item has a boolean value that is neither true nor false
BadBool(item) ==
  item.type = T_bool /\ item.enumvalue \notin {NoStr, E_true, E_false}

\* the value the C declaration is to show for an item with a value
ShownValue(item) ==
  IF item.type = T_bool THEN (IF item.enumvalue = E_true THEN E_one ELSE E_zero)
  ELSE IF item.type = T_char
  THEN E_quote \o Swig_string_escape(item.enumvalue) \o E_quote
  ELSE item.enumvalue

\* the text gives the item the value v
HasValue(text, item, v) ==
  \E d \in {",", "\n"} : Contains(text, item.sym_name \o E_assign \o v \o <<d>>)

\* an item followed by " = " and nothing
EmptyValue(text) ==
  \E d \in {",", "\n"} : Contains(text, E_assign \o <<d>>)

\* the enum declarations of a section
EnumTexts(sect) ==
  { sect[k].name : k \in { m \in 1..Len(sect) : sect[m].t \in {"enum", "cxx_enum"} } }

\* the emitted items with a value have it in the declaration just appended
ValuesShown(n) ==
  \A k \in Survivors(n) :
    n.items[k].enumvalue # NoStr =>
      HasValue(Appended(sect_wrappers_types, sect_wrappers_types'), n.items[k],
               ShownValue(n.items[k]))

\* the values of the enums that have no unsupported boolean value
C19_SupportedValues ==
  [][AtEnum /\ Survivors(CurrentNode) # {}
       /\ ~(\E k \in Survivors(CurrentNode) : BadBool(CurrentNode.items[k]))
       => ValuesShown(CurrentNode)]_vars

\* C19: a boolean value true is written as 1 and false as 0, a character
\* value is quoted again and any other value is written as it is; an enum
\* with another boolean value gets a diagnostic and no declaration, no item
\* is ever written with nothing after " = ", and the declarations after it
\* are still emitted
C19_BoolValues ==
  [][AtEnum /\ Survivors(CurrentNode) # {} =>
       /\ IF \E k \in Survivors(CurrentNode) : BadBool(CurrentNode.items[k])
          THEN /\ Len(diag') > Len(diag)
               /\ UNCHANGED AllSections
          ELSE ValuesShown(CurrentNode)
       /\ \A text \in EnumTexts(sect_wrappers_types') \cup EnumTexts(sect_types')
                        \cup EnumTexts(sect_decls') : ~EmptyValue(text)]_vars

\* the enums of the module, nested ones included, that are visited
EnumsOf(tr) ==
  { tr[i] : i \in { m \in 1..Len(tr) : tr[m].nodeType = "enum" } }
    \cup UNION { { tr[i].members[j] :
                     j \in { m \in 1..Len(tr[i].members) :
                               tr[i].members[m].nodeType = "enum" } } :
                 i \in { m \in 1..Len(tr) : tr[m].nodeType = "class" } }

\* the diagnostic is recorded and the enum after it is declared
C19_DiagnosticAndRest ==
  Done =>
    /\ (\E e \in EnumsOf(tree) : \E k \in Survivors(e) : BadBool(e.items[k]))
         = (\E d \in 1..Len(diag) : diag[d].w = "unsupported_bool_enum_value")
    /\ \E text \in EnumTexts(sect_wrappers_types) :
         StartsWith(text, E_enum \o S_space)
           /\ Contains(text, N_B \o E_open \o cindent)

-----------------------------------------------------------------------------
(* A second run of the emitter over the tree the first run left.            *)

\* everything the emitter wrote
AllOutput ==
  <<sect_runtime, sect_wrappers_types, sect_wrappers_decl, sect_wrappers, sect_types,
    sect_decls, sect_impls>>

\* the position before top()
AtStart == [AtTop(1) EXCEPT !.phase = "start"]

\* top(n) is called again: the sections are new and empty, the tree and the
\* members of the generator are as the first run left them
Restart ==
  /\ Done
  /\ run = 1
  /\ run' = 2
  /\ firstRun' = AllOutput
  /\ sect_runtime' = <<>>
  /\ sect_wrappers_types' = <<>>
  /\ sect_wrappers_decl' = <<>>
  /\ sect_wrappers' = <<>>
  /\ sect_types' = <<>>
  /\ sect_decls' = <<>>
  /\ sect_impls' = <<>>
  /\ diag' = <<>>
  /\ class_wrapper' = NoWrapper
  /\ pos' = AtStart
  /\ f_wrappers_h' = <<>>
  /\ UNCHANGED <<tree, config, root, parsed, rtVars, exVars>>

\* classes A and B, and a class D that derives from none, one or both
RerunTrees ==
  { << ClassNode(N_A, FALSE, FALSE, <<>>, <<Method(N_f)>>),
       ClassNode(N_B, FALSE, FALSE, <<>>, <<Method(m)>>),
       ClassNode(N_D, FALSE, bs # <<>>, bs, ms),
       FreeFn(N_g) >> :
      m \in {N_f, N_g},
      bs \in {<<>>, <<1>>, <<1, 2>>, <<2, 1>>},
      ms \in {<<>>, <<Ctor>>, <<Method(N_f)>>} }

RerunConfigs ==
  { Config(cxx, ex, ns) : cxx \in BOOLEAN, ex \in {"enabled", "disabled"},
                          ns \in {NoStr, N_ns} }

\* the module imports a named module or nothing
RerunRoots == { <<>>, <<RootNode("import", TRUE, <<>>)>> }

InitRerun ==
  /\ tree \in RerunTrees
  /\ config \in RerunConfigs
  /\ root \in RerunRoots
  /\ pos = AtStart
  /\ sect_wrappers_types = <<>>
  /\ sect_wrappers_decl = <<>>
  /\ sect_wrappers = <<>>
  /\ sect_types = <<>>
  /\ sect_decls = <<>>
  /\ sect_impls = <<>>
  /\ class_wrapper = NoWrapper
  /\ diag = <<>>
  /\ sect_runtime = <<>>
  /\ run = 1
  /\ firstRun = <<>>
  /\ f_wrappers_h = <<>>
  /\ parsed = tree
  /\ InitRt /\ InitEx

NextRerun == top \/ Next \/ Restart

SpecRerun == InitRerun /\ [][NextRerun]_vars

\* C20: the second run of the emitter over the same tree with the same
\* configuration writes into every section what the first run wrote
C20_SecondRunIdentical ==
  run = 2 /\ Done => AllOutput = firstRun

\* a member of the class was inherited from two bases under the same name
NameClash(cls) ==
  \E j \in 1..Len(cls.members) : cls.members[j].base_name # NoStr

\* the second run writes what the first wrote when no class inherits a name
\* from two bases and the first run did not find an imported module
C20_IdenticalWithoutClash ==
  run = 2 /\ Done
    /\ (\A i \in 1..Len(tree) : tree[i].nodeType = "class" => ~NameClash(tree[i]))
    /\ config.except # "imported"
    => AllOutput = firstRun

-----------------------------------------------------------------------------
(* The end of top(): the sections are written to the header.                *)

RECURSIVE NamespaceComponents(_)
\* the components of ns_cxx between "::", as the loop over strstr(c, "::")
\* finds them
NamespaceComponents(s) ==
  IF LastScope(s, 1, 0) = 0 THEN <<s>>
  ELSE Append(NamespaceComponents(Swig_scopename_prefix(s)), Swig_scopename_last(s))

\* ns_cxx: the argument of -namespace, else the name of the module
NamespaceOf(cfg) == IF cfg.ns_prefix # NoStr THEN cfg.ns_prefix ELSE cfg.module_name

NamespaceOpen(comps) ==
  [k \in 1..Len(comps) |-> Tok("namespace_open", NoStr, comps[k], FALSE)]

NamespaceClose(comps) ==
  [k \in 1..Len(comps) |-> Tok("namespace_close", NoStr, NoStr, FALSE)]

BlankLine == Tok("newline", NoStr, NoStr, FALSE)

\* a faulty variant: the namespace is written without the facade too
FacadeText_NoGate(cfg, types, decls, impls) ==
  <<Tok("ifdef_cplusplus", NoStr, NoStr, FALSE)>>
    \o NamespaceOpen(NamespaceComponents(NamespaceOf(cfg)))
    \o <<BlankLine>> \o types \o <<BlankLine>> \o decls \o <<BlankLine>> \o impls
    \o <<BlankLine>> \o NamespaceClose(NamespaceComponents(NamespaceOf(cfg)))
    \o <<Tok("endif_cplusplus", NoStr, NoStr, FALSE)>>

\* what top() writes to the header for the facade
FacadeText(cfg, types, decls, impls) ==
  IF ~cfg.cxx THEN <<>>
  ELSE <<Tok("ifdef_cplusplus", NoStr, NoStr, FALSE)>>
         \o NamespaceOpen(NamespaceComponents(NamespaceOf(cfg)))
         \o <<BlankLine>> \o types
         \o <<BlankLine>> \o decls
         \o <<BlankLine>> \o impls
         \o <<BlankLine>> \o NamespaceClose(NamespaceComponents(NamespaceOf(cfg)))
         \o <<Tok("endif_cplusplus", NoStr, NoStr, FALSE)>>

\* a faulty variant: the declarations are written before the types
HeaderText_DeclFirst(cfg, wtypes, wdecl, types, decls, impls) ==
  wdecl \o wtypes \o FacadeText(cfg, types, decls, impls)

\* what top() writes to the header after Language::top(n) returned, up to
\* the end of the include guard
HeaderText(cfg, wtypes, wdecl, types, decls, impls) ==
  wtypes \o wdecl \o FacadeText(cfg, types, decls, impls)

\* the position after top() returned
Written == [AtTop(1) EXCEPT !.phase = "written"]

\* top(n) after Language::top(n): the extern "C" guards are closed, the
\* sections are dumped and the include guard is closed
topEnd ==
  /\ Done
  /\ sect_wrappers' = Append(sect_wrappers, ExternCEnd)
  /\ sect_wrappers_decl' = Append(sect_wrappers_decl, ExternCEnd)
  /\ f_wrappers_h' =
       Append(f_wrappers_h
                \o HeaderText(config, sect_wrappers_types,
                              Append(sect_wrappers_decl, ExternCEnd),
                              sect_types, sect_decls, sect_impls),
              Tok("include_guard_end", NoStr, config.module_name, FALSE))
  /\ pos' = Written
  /\ UNCHANGED <<tree, config, sect_wrappers_types, sect_types, sect_decls, sect_impls,
                 class_wrapper, diag, root, sect_runtime, run, firstRun, parsed,
                 rtVars, exVars>>

\* a class, an enum, a function and a variable
OutPool ==
  { ClassNode(N_A, FALSE, FALSE, <<>>, <<Ctor, Method(N_f)>>),
    EnumNode(N_Color, FALSE, NoStr, FALSE, FlagFirstKept(<<EnumItem(N_RED, T_int, NoStr)>>)),
    FreeFn(N_g),
    VarNode(N_x, T_int, "") }

\* two or three of them in any order
OutTrees ==
  { <<a, b>> : a \in OutPool, b \in OutPool } \cup
  { <<a, b, c>> : a \in OutPool, b \in OutPool, c \in OutPool }

DistinctItems(t) == \A i \in 1..Len(t) : \A j \in 1..Len(t) : i # j => t[i] # t[j]

OutConfigs ==
  { Config(cxx, ex, ns) : cxx \in BOOLEAN, ex \in {"enabled", "disabled"},
                          ns \in {NoStr, N_ns} }

InitOut ==
  /\ tree \in { t \in OutTrees : DistinctItems(t) }
  /\ config \in OutConfigs
  /\ root = <<>>
  /\ pos = AtStart
  /\ sect_wrappers_types = <<>>
  /\ sect_wrappers_decl = <<>>
  /\ sect_wrappers = <<>>
  /\ sect_types = <<>>
  /\ sect_decls = <<>>
  /\ sect_impls = <<>>
  /\ class_wrapper = NoWrapper
  /\ diag = <<>>
  /\ sect_runtime = <<>>
  /\ run = 1
  /\ firstRun = <<>>
  /\ f_wrappers_h = <<>>
  /\ parsed = tree
  /\ InitRt /\ InitEx

NextOut == top \/ Next \/ globalvariableHandler \/ enumDeclaration \/ topEnd

SpecOut == InitOut /\ [][NextOut]_vars

\* the sections that end in the header
HeaderSections ==
  <<sect_wrappers_types, sect_wrappers_decl, sect_types, sect_decls, sect_impls>>

\* the pieces top() itself writes to the header around the sections
HeaderMarkers ==
  { "include_guard_begin", "include_guard_end", "ifdef_cplusplus", "endif_cplusplus",
    "namespace_open", "namespace_close", "newline" }

FromSection(piece) == piece.t \notin HeaderMarkers

\* the header without the pieces top() writes around the sections
HeaderBody(h) == SelectSeq(h, FromSection)

\* the sections in the order of the header, those of the facade only when
\* it is enabled
SectionsInOrder ==
  sect_wrappers_types \o sect_wrappers_decl
    \o (IF config.cxx THEN sect_types \o sect_decls \o sect_impls ELSE <<>>)

-----------------------------------------------------------------------------
(* The options -nocxx and -noexcept.                                        *)

\* the sections of the C wrappers
CSections == <<sect_wrappers_types, sect_wrappers_decl, sect_wrappers>>

\* SWIG is run again on the same input with -nocxx given where it was not
\* and not given where it was: the tree is as the parser leaves it, and what
\* the first run wrote is kept for comparison
Regenerate ==
  /\ pos.phase = "written"
  /\ run = 1
  /\ run' = 2
  /\ firstRun' = CSections
  /\ tree' = parsed
  /\ config' = [config EXCEPT !.cxx = ~config.cxx]
  /\ sect_runtime' = <<>>
  /\ sect_wrappers_types' = <<>>
  /\ sect_wrappers_decl' = <<>>
  /\ sect_wrappers' = <<>>
  /\ sect_types' = <<>>
  /\ sect_decls' = <<>>
  /\ sect_impls' = <<>>
  /\ diag' = <<>>
  /\ class_wrapper' = NoWrapper
  /\ f_wrappers_h' = <<>>
  /\ pos' = AtStart
  /\ UNCHANGED <<root, parsed, rtVars, exVars>>

\* class A, one more declaration, and class B deriving from A
GateTrees ==
  { << ClassNode(N_A, FALSE, FALSE, <<>>, ma), x, ClassNode(N_B, FALSE, TRUE, <<1>>, mb) >> :
      ma \in { <<Ctor, Method(N_f)>>,
               <<[Method(N_f) EXCEPT !.noexcept = TRUE],
                 NestedEnum(EnumNode(N_A_Color, FALSE, NoStr, FALSE,
                                     FlagFirstKept(<<EnumItem(N_RED, T_int, NoStr)>>)),
                            "public")>> },
      x \in { FreeFn(N_g),
              WrapFn(N_g, T_pA, <<T_Foo, T_int>>, "ok"),
              VarNode(N_x, T_int, ""),
              VarNode(N_x, T_rA, ""),
              EnumNode(N_Color, FALSE, N_Color_t, FALSE,
                       FlagFirstKept(<<EnumItem(N_RED, T_int, NoStr)>>)) },
      mb \in { <<>>, <<Ctor>>, <<Method(N_g)>>, <<VarNode(N_x, T_int, "")>> } }

InitGate ==
  /\ tree \in GateTrees
  /\ config \in OutConfigs
  /\ root = <<>>
  /\ pos = AtStart
  /\ sect_wrappers_types = <<>>
  /\ sect_wrappers_decl = <<>>
  /\ sect_wrappers = <<>>
  /\ sect_types = <<>>
  /\ sect_decls = <<>>
  /\ sect_impls = <<>>
  /\ class_wrapper = NoWrapper
  /\ diag = <<>>
  /\ sect_runtime = <<>>
  /\ run = 1
  /\ firstRun = <<>>
  /\ f_wrappers_h = <<>>
  /\ parsed = tree
  /\ InitRt /\ InitEx

NextGate ==
  top \/ Next \/ globalvariableHandler \/ enumDeclaration \/ topEnd \/ Regenerate

SpecGate == InitGate /\ [][NextGate]_vars

\* the pieces of the header that are there for the facade only
FacadeMarkers == {"ifdef_cplusplus", "endif_cplusplus", "namespace_open", "namespace_close"}

\* a body of the facade with a check for a pending exception
CheckedBodies ==
  { k \in 1..Len(sect_impls) : sect_impls[k].flag /\ sect_impls[k].t # "swig_check_def" }

\* C22: with -nocxx no facade section and no namespace is written, and the
\* C sections are those written for the same input with the facade; with
\* -noexcept no body of the facade checks for a pending exception and the
\* checking function is not defined
C22_OptionsGate ==
  /\ ~config.cxx =>
       /\ sect_types = <<>> /\ sect_decls = <<>> /\ sect_impls = <<>>
       /\ \A k \in 1..Len(f_wrappers_h) :
            f_wrappers_h[k].t \notin FacadeMarkers \cup {"class_fwd", "class_open", "cxx_enum"}
  /\ run = 2 /\ pos.phase = "written" => CSections = firstRun
  /\ config.except = "disabled" =>
       CheckedBodies = {} /\ Positions(sect_impls, "swig_check_def", NoStr) = {}

\* both runs are over: the second, without the facade, wrote the C sections
\* of the first, which had a facade with exception checks
C22_Witness ==
  /\ run = 2 /\ pos.phase = "written"
  /\ ~config.cxx
  /\ config.except = "enabled"
  /\ Len(firstRun[1]) > 1 /\ Len(firstRun[2]) > 3
  /\ CSections = firstRun
  /\ f_wrappers_h # <<>>

-----------------------------------------------------------------------------
(* Global variables: exported directly or through accessor functions.       *)

\* the global variables whose handler has returned
VisitedVariables ==
  { tree[i] : i \in { k \in 1..Len(tree) :
                        /\ tree[k].nodeType = "cdecl" /\ tree[k].kind = "variable"
                        /\ pos.item > k } }

\* a type C++ and C share: no reference, and a builtin type at its base
RepresentableInC(type) ==
  ~StartsWith(type, S_ref) /\ SwigType_isbuiltin(SwigType_base(type))

\* the declarations of variables in the header
VariableDecls == PiecesOfKind(sect_wrappers_decl, {"var_decl"})

\* the declarations and definitions of the accessors of variable n
AccessorsOf(n, sect) ==
  PiecesNamed(sect, GlobalVarSymName(n) \o S_get)
    \cup PiecesNamed(sect, GlobalVarSymName(n) \o S_set)

\* n has its getter, and its setter unless it is immutable, declared and
\* defined
HasAccessors(n) ==
  /\ PiecesNamed(sect_wrappers_decl, GlobalVarSymName(n) \o S_get) # {}
  /\ PiecesNamed(sect_wrappers, GlobalVarSymName(n) \o S_get) # {}
  /\ ~n.immutable =>
       /\ PiecesNamed(sect_wrappers_decl, GlobalVarSymName(n) \o S_set) # {}
       /\ PiecesNamed(sect_wrappers, GlobalVarSymName(n) \o S_set) # {}

-----------------------------------------------------------------------------
(* Flattening of the base classes.                                          *)

N_assign == <<"a","s","s","i","g","n">>
T_rcA    == S_ref \o S_qconst \o N_A

\* A::operator=(const A&), renamed to assign
OpAssign ==
  [WrapFn(S_opassign, T_rA, <<T_rcA>>, "ok") EXCEPT !.sym_name = N_assign]

\* the members class A may have: f, and before or after it an assignment
\* operator, a static function, a private function, an ignored function
\* left without sym:name, a variable of a built-in type or of a typedef
FlatMembersA ==
  { <<Method(N_f)>>,
    <<Method(N_f), OpAssign>>,
    <<[Method(N_h) EXCEPT !.storage = "static"], Method(N_f)>>,
    <<[Method(N_g) EXCEPT !.access = "private"], Method(N_f)>>,
    <<[Method(N_h) EXCEPT !.sym_name = NoStr], Method(N_f)>>,
    <<VarNode(N_x, T_int, ""), Method(N_f)>>,
    <<VarNode(N_x, T_Cb, ""), Method(N_f)>> }

\* every list of different classes among the first three of the tree
FlatBaseLists ==
  { <<a>> : a \in 1..3 }
    \cup { l \in { <<a, b>> : a \in 1..3, b \in 1..3 } : l[1] # l[2] }
    \cup { l \in { <<a, b, c>> : a \in 1..3, b \in 1..3, c \in 1..3 } :
             l[1] # l[2] /\ l[1] # l[3] /\ l[2] # l[3] }

\* classes A, B and C, and class D deriving from some of them, the members
\* of D having ismember set as those of every class
FlatTrees ==
  { << ClassNode(N_A, FALSE, FALSE, <<>>, ma),
       ClassNode(N_B, FALSE, FALSE, <<>>, mb),
       ClassNode(N_C, FALSE, FALSE, <<>>, mc),
       ClassNode(N_D, FALSE, TRUE, bs, md) >> :
      ma \in FlatMembersA,
      mb \in { <<Method(N_f)>>, <<Method(N_g)>>, <<Method(N_f), Method(N_g)>> },
      mc \in { <<Method(N_f)>>, <<Method(N_g)>> },
      md \in { <<>>, <<Method(N_f)>>, <<Ctor>> },
      bs \in FlatBaseLists }

FlatConfigs == { Config(cxx, "disabled", NoStr) : cxx \in BOOLEAN }

InitFlatten == InitGenWith(FlatTrees, FlatConfigs) /\ InitRt /\ InitEx /\ InitTopIdle

NextFlatten == Next \/ cDeclarationSkipped

SpecFlatten == InitFlatten /\ [][NextFlatten]_vars

\* classHandler() is about to flatten the bases of the class the walk is at
AtDerivedClass ==
  /\ pos.phase = "top" /\ pos.item <= Len(tree)
  /\ tree[pos.item].nodeType = "class"
  /\ tree[pos.item].hasBases

\* the members of a base that a derived class inherits
Inheritable(m) ==
  /\ m.kind \in {"function", "variable"}
  /\ m.access = "public"
  /\ m.storage # "static"
  /\ m.sym_name # NoStr
  /\ m.name # S_opassign

EndsWith(s, suffix) ==
  Len(s) >= Len(suffix) /\ SubSeq(s, Len(s) - Len(suffix) + 1, Len(s)) = suffix

\* child c of the derived class is a shadow of member m of the class origin
ShadowOf(c, m, origin) ==
  /\ c.inherited_from = origin
  /\ c.kind = m.kind /\ c.decl = m.decl /\ c.type = m.type /\ c.parms = m.parms
  /\ EndsWith(c.name, m.name)

\* the bases of class cls with their members, as <<name, member>> pairs
BaseMembers(tr, cls) ==
  UNION { { <<tr[cls.bases[b]].name, tr[cls.bases[b]].members[j]>> :
              j \in 1..Len(tr[cls.bases[b]].members) } :
          b \in 1..Len(cls.bases) }

\* what flattening made of the children own of a class, given the members of
\* its bases
Flattened(own, ch, basemembers) ==
  /\ \A bm \in basemembers :
       Inheritable(bm[2]) =>
         \E k \in 1..Len(ch) :
           /\ ch[k].name = bm[2].name
           /\ k <= Len(own) \/ ch[k].inherited_from \in { x[1] : x \in basemembers }
  /\ \A bm \in basemembers :
       ~Inheritable(bm[2]) =>
         ~\E k \in (Len(own) + 1)..Len(ch) : ShadowOf(ch[k], bm[2], bm[1])
  /\ Len(ch) >= Len(own) /\ SubSeq(ch, 1, Len(own)) = own
  /\ \A k \in (Len(own) + 1)..Len(ch) :
       /\ ch[k].inherited_from # NoStr
       /\ \A j \in 1..Len(own) : ch[k].name # own[j].name

\* C24: after the bases of a class were flattened, every public, non-static
\* function or variable of a base that has a sym:name and is no assignment
\* operator has a child of its name in the derived class, a member of the
\* class itself or a shadow tagged with a base; no assignment operator,
\* static, non-public or unnamed member has a shadow; the members of the
\* class itself are as they were and no shadow has the name of one of them
C24_FlattenedMembers ==
  [][AtDerivedClass /\ pos'.phase = "class" =>
       Flattened(tree[pos.item].members, tree'[pos.item].members,
                 BaseMembers(tree, tree[pos.item]))]_vars

\* D : A, B with A { operator=, f } and D { f }: after classHandler(D) the
\* class has its own f, g of B, and nothing of the assignment operator
C24_Witness ==
  /\ pos.phase = "class" /\ pos.item = 4 /\ pos.member = 1
  /\ parsed[1].members = <<Method(N_f), OpAssign>>
  /\ parsed[4].members = <<Method(N_f)>>
  /\ tree[4].bases = <<1, 2>>
  /\ tree[4].members[1] = Method(N_f)
  /\ \E k \in 2..Len(tree[4].members) :
       tree[4].members[k].name = N_g /\ tree[4].members[k].inherited_from = N_B
  /\ \A k \in 1..Len(tree[4].members) : tree[4].members[k].name # S_opassign

\* the shadows among the children ch, those after the members own of the
\* class, that were copied from a member called name of some base, each with
\* the sym:name of the member it was copied from: <<index, sym:name>> pairs
ShadowsOf(own, ch, basemembers, name) ==
  { <<k, bm[2].sym_name>> :
      k \in (Len(own) + 1)..Len(ch),
      bm \in { x \in basemembers : x[2].name = name /\ Inheritable(x[2]) } }
  \cap
  { ks \in ((Len(own) + 1)..Len(ch)) \X { x[2].sym_name : x \in basemembers } :
      \E bm \in basemembers :
        /\ bm[2].name = name /\ bm[2].sym_name = ks[2]
        /\ ShadowOf(ch[ks[1]], bm[2], bm[1]) }

\* the shadows of one name that came from more than one base have different
\* sym:names, each the name of its origin class followed by the sym:name of
\* the member, and each has that sym:name as its c:base_name
Disambiguated(own, ch, basemembers) ==
  \A name \in { x[2].name : x \in basemembers } :
    LET sh == ShadowsOf(own, ch, basemembers, name)
    IN  (\E s1 \in sh, s2 \in sh :
           ch[s1[1]].inherited_from # ch[s2[1]].inherited_from) =>
          /\ \A s1 \in sh, s2 \in sh :
               s1[1] # s2[1] => ch[s1[1]].sym_name # ch[s2[1]].sym_name
          /\ \A s \in sh :
               /\ ch[s[1]].sym_name = ch[s[1]].inherited_from \o s[2]
               /\ ch[s[1]].base_name = s[2]

\* C25: after the bases of a class were flattened, the shadows of a member
\* name that several bases share have pairwise different sym:names, each
\* qualified with the name of its own origin class, and each records the
\* unqualified sym:name of the member as its base symbol
C25_ClashingShadows ==
  [][AtDerivedClass /\ pos'.phase = "class" =>
       Disambiguated(tree[pos.item].members, tree'[pos.item].members,
                     BaseMembers(tree, tree[pos.item]))]_vars

\* what the code does for the first shadow of a shared name and the shadows
\* that follow: the first is qualified once for every further base, the
\* others keep the sym:name of the member and are renamed instead
C25_FirstShadowQualified ==
  [][AtDerivedClass /\ pos'.phase = "class" /\ tree[pos.item].members = <<>>
       /\ (\A b \in 1..Len(tree[pos.item].bases) :
             \E j \in 1..Len(tree[tree[pos.item].bases[b]].members) :
               tree[tree[pos.item].bases[b]].members[j] = Method(N_f))
     => LET ch    == tree'[pos.item].members
            bs    == tree[pos.item].bases
            first == tree[bs[1]].name
            k1    == is_in(N_f, ch)
        IN  /\ k1 # 0
            /\ ch[k1].inherited_from = first
            /\ ch[k1].sym_name =
                 IF Len(bs) = 1 THEN N_f
                 ELSE IF Len(bs) = 2 THEN first \o N_f
                 ELSE first \o first \o N_f
            /\ \A k \in 1..Len(ch) :
                 k # k1 /\ EndsWith(ch[k].name, N_f) => ch[k].sym_name = N_f
            /\ Len(bs) = 3 =>
                 \E k \in 1..Len(ch) :
                   /\ ch[k].inherited_from = tree[bs[3]].name
                   /\ ch[k].name = tree[bs[3]].name \o first \o N_f
                   /\ ch[k].base_name = first \o N_f]_vars

-----------------------------------------------------------------------------
(* The typedefs of the types SWIG knows nothing about.                      *)

\* the name of the opaque type that stands for the unknown type Foo
SWIGTYPE_p_Foo == S_SWIGTYPE \o SwigType_manglestr(S_ptr \o T_Foo)

\* the declarations written so far
Declarations ==
  { sect_wrappers_decl[k] :
      k \in { m \in 1..Len(sect_wrappers_decl) : sect_wrappers_decl[m].t = "decl" } }

\* the number of places, return type and parameters, where the declaration
\* d names the opaque type
UsesOf(d, typestr) ==
  (IF Contains(d.sig.ret, typestr) THEN 1 ELSE 0)
    + Cardinality({ k \in 1..Len(d.sig.parms) : Contains(d.sig.parms[k].type, typestr) })

\* the number of typedefs of the opaque type in the types section
TypedefsOf(typestr) ==
  Cardinality({ k \in 1..Len(sect_wrappers_types) :
                  sect_wrappers_types[k] = Tok("opaque_typedef", NoStr, typestr, FALSE) })

\* C26: the typedef of an opaque type that a declaration names is in the C
\* types section exactly once, however many return types and parameters
\* name the type
C26_OpaqueTypedefOnce ==
  \A d \in Declarations :
    UsesOf(d, SWIGTYPE_p_Foo) > 0 => TypedefsOf(SWIGTYPE_p_Foo) = 1

\* what the code does: one typedef is written for every return type and
\* parameter that names the opaque type, so that the types section, which
\* comes before the declarations, has at least one per use
C26_OpaqueTypedefPerUse ==
  \A d \in Declarations :
    /\ TypedefsOf(SWIGTYPE_p_Foo) >= UsesOf(d, SWIGTYPE_p_Foo)
    /\ TypedefsOf(SWIGTYPE_p_Foo) > 0 =>
         \A k \in 1..Len(sect_wrappers_types) :
           sect_wrappers_types[k].t = "opaque_typedef" =>
             sect_wrappers_types[k].name = SWIGTYPE_p_Foo

\* Foo f(Foo) was declared and the types section has two typedefs
C26_TwoTypedefs ==
  /\ Done
  /\ \E d \in Declarations : UsesOf(d, SWIGTYPE_p_Foo) = 2
  /\ TypedefsOf(SWIGTYPE_p_Foo) = 2

-----------------------------------------------------------------------------
(* What a run writes on the nodes of the tree.                              *)

\* a member without the name cached on it
WithoutCachedNames(n) ==
  IF n.nodeType = "enum" THEN n ELSE [n EXCEPT !.wrap_name = NoStr]

\* a top-level node without the names cached on it and on its members
Uncached(n) ==
  IF n.nodeType = "class"
  THEN [n EXCEPT !.proxyname = NoStr,
                 !.members = [k \in 1..Len(n.members) |-> WithoutCachedNames(n.members[k])]]
  ELSE WithoutCachedNames(n)

\* C27: at the end of a run every node of the tree has the attributes and
\* the children it had when the run began, the cached proxy and wrapper
\* names aside
C27_OnlyCachedNames ==
  Done => \A i \in 1..Len(tree) : Uncached(tree[i]) = Uncached(parsed[i])

\* what the code writes besides: the children a class had are still its
\* first children, each as it was but for the cached wrapper name and for
\* the type of a member variable, which has its typedefs resolved; every
\* further child is a shadow of a member of a base
C27_WrittenAttributes ==
  \A i \in 1..Len(tree) :
    /\ tree[i].nodeType = "class" =>
         /\ [tree[i] EXCEPT !.proxyname = NoStr, !.members = <<>>]
              = [parsed[i] EXCEPT !.proxyname = NoStr, !.members = <<>>]
         /\ Len(tree[i].members) >= Len(parsed[i].members)
         /\ \A k \in 1..Len(parsed[i].members) :
              WithoutCachedNames(tree[i].members[k])
                \in { WithoutCachedNames(parsed[i].members[k]),
                      [WithoutCachedNames(parsed[i].members[k])
                         EXCEPT !.type = membervariableHandler(parsed[i].members[k])] }
         /\ \A k \in (Len(parsed[i].members) + 1)..Len(tree[i].members) :
              tree[i].members[k].inherited_from
                \in { tree[tree[i].bases[b]].name : b \in 1..Len(tree[i].bases) }
    /\ tree[i].nodeType # "class" =>
         WithoutCachedNames(tree[i]) = WithoutCachedNames(parsed[i])

\* at the end of a run class D has a child more than it was parsed with and
\* the member variable of A has another type than it was parsed with
C27_TreeChanged ==
  /\ Done
  /\ Len(tree[4].members) > Len(parsed[4].members)
  /\ parsed[1].members[1].type = T_Cb
  /\ tree[1].members[1].type # T_Cb

-----------------------------------------------------------------------------
(* Classes with several bases, and the classes that derive from them.       *)

N_E == <<"E">>
N_D_Color == N_D \o S_scope \o N_Color

\* the members of a class that may have two bases: a constructor, a method
\* and the destructor, or a nested enum, public or private
MultiMembers ==
  { <<>>,
    <<Ctor, Method(N_g), Dtor>>,
    <<Ctor, NestedEnum(EnumNode(N_D_Color, FALSE, NoStr, FALSE,
                                FlagFirstKept(<<EnumItem(N_RED, T_int, NoStr)>>)),
                       "public")>>,
    <<NestedEnum(EnumNode(N_D_Color, FALSE, NoStr, FALSE,
                          FlagFirstKept(<<EnumItem(N_RED, T_int, NoStr)>>)),
                 "private"),
      Method(N_g)>> }

\* classes A and B, class D deriving from A or from both, and class E
\* deriving from D alone
MultiTrees ==
  { << ClassNode(N_A, FALSE, FALSE, <<>>, <<Method(N_f)>>),
       ClassNode(N_B, FALSE, FALSE, <<>>, mb),
       ClassNode(N_D, FALSE, TRUE, bs, md),
       ClassNode(N_E, FALSE, TRUE, <<3>>, me) >> :
      mb \in { <<Method(N_f)>>, <<Method(N_h)>> },
      bs \in { <<1>>, <<1, 2>>, <<2, 1>> },
      md \in MultiMembers,
      me \in { <<>>, <<Ctor>>, <<Method(N_x)>> } }

MultiConfigs ==
  { Config(cxx, ex, ns) : cxx \in BOOLEAN, ex \in {"enabled", "disabled"},
                          ns \in {NoStr, N_ns} }

InitMulti == InitGenWith(MultiTrees, MultiConfigs) /\ InitRt /\ InitEx /\ InitTopIdle

NextMulti == Next \/ enumDeclaration

SpecMulti == InitMulti /\ [][NextMulti]_vars

\* the walk is inside the class at p.item, whose C++ wrapper class was given
\* up with the warning about multiple inheritance: class_node_ was left null
FacadeDisabled(p, cw, cfg, dg) ==
  /\ p.phase = "class"
  /\ cfg.cxx
  /\ cw.live /\ cw.class_node_ = 0
  /\ \E k \in 1..Len(dg) : dg[k] = Warn("multiple_inheritance", tree[p.item].sym_name, NoStr)

FacadeSections == <<sect_types, sect_decls, sect_impls>>

\* C28: from the step that gives up the wrapper class of a class with
\* several bases to the end of that class, no step appends anything to
\* sect_types, sect_decls or sect_impls, whether it handles a member
\* function, a constructor, the destructor or a nested enum
C28_DisabledFacadeSilent ==
  [][FacadeDisabled(pos, class_wrapper, config, diag)
       \/ FacadeDisabled(pos', class_wrapper', config', diag')
     => FacadeSections' = FacadeSections]_vars

\* what the code does: every step but enumDeclaration() leaves the three
\* sections alone, and a public nested enum with an item is appended to
\* sect_decls
C28_SilentButEnums ==
  [][FacadeDisabled(pos, class_wrapper, config, diag)
       \/ FacadeDisabled(pos', class_wrapper', config', diag')
     => IF AtEnum /\ CurrentNode.access = "public"
        THEN /\ sect_types' = sect_types /\ sect_impls' = sect_impls
             /\ Len(sect_decls') = Len(sect_decls) + 1
             /\ sect_decls'[Len(sect_decls')].t = "cxx_enum"
        ELSE FacadeSections' = FacadeSections]_vars

\* the nested enum of D : A, B is in sect_decls and no class declaration of
\* D is there
C28_EnumOutsideClass ==
  /\ Done
  /\ \E k \in 1..Len(sect_decls) : sect_decls[k].t = "cxx_enum" /\ sect_decls[k].cls = N_D
  /\ \A k \in 1..Len(sect_decls) : sect_decls[k].t = "class_open" => sect_decls[k].cls # N_D
  /\ \E k \in 1..Len(sect_wrappers) : sect_wrappers[k].cls = N_D

\* the classes whose C++ wrapper class declaration was opened so far
DeclaredFacades ==
  { sect_decls[k].cls : k \in { j \in 1..Len(sect_decls) : sect_decls[j].t = "class_open" } }

\* the classes named in the base clause of such a declaration
FacadeBases ==
  { sect_decls[k].name :
      k \in { j \in 1..Len(sect_decls) :
                sect_decls[j].t = "class_open" /\ sect_decls[j].name # NoStr } }

\* the classes given up with the warning about multiple inheritance
SkippedFacades ==
  { diag[k].cls : k \in { j \in 1..Len(diag) : diag[j].w = "multiple_inheritance" } }

\* C29: the class named in the base clause of a C++ wrapper class
\* declaration has a C++ wrapper class declaration itself; a class whose
\* only base was given up for multiple inheritance does not derive from it
C29_BaseFacadeDeclared ==
  FacadeBases \subseteq DeclaredFacades

\* what the code does: the base clause names the first base that is not
\* ignored, whose declaration is there unless it was given up
C29_BaseDeclaredOrSkipped ==
  /\ FacadeBases \subseteq DeclaredFacades \cup SkippedFacades
  /\ \A k \in 1..Len(sect_decls) :
       sect_decls[k].t = "class_open" /\ sect_decls[k].name \in DeclaredFacades =>
         \E j \in 1..(k - 1) :
           sect_decls[j].t = "class_open" /\ sect_decls[j].cls = sect_decls[k].name

\* class E : public D was declared and D, which has two bases, was not
C29_DerivedFromSkipped ==
  /\ Done
  /\ N_D \in SkippedFacades /\ N_D \notin DeclaredFacades
  /\ \E k \in 1..Len(sect_decls) :
       sect_decls[k] = Tok("class_open", N_E, N_D, TRUE)

-----------------------------------------------------------------------------
(* The life of the underlying objects.                                      *)

\* the return expression for an object of a class: classname(swig_res), the
\* constructor from the pointer to the copy the C wrapper has made
WrapObject(depth, swig_res) == FromPointer(depth, swig_res, OwnsByDefault)

\* a facade method returns an object by value: the C wrapper returns a new
\* copy of it
ObjReturn(f, d) ==
  /\ Free(f)
  /\ created < MaxObjs
  /\ created' = created + 1
  /\ facades' = [facades EXCEPT ![f] = NewFacade(WrapObject(d, created + 1), d, "new")]
  /\ lastOp' = Op("obj_return", 0, f, created + 1)
  /\ UNCHANGED <<deleted, genVars, exVars, topVars>>

NextLife ==
  \/ NextFacade
  \/ \E f \in 1..MaxFacades, d \in 1..MaxDepth : ObjReturn(f, d)

SpecLife == InitFacade /\ [][NextLife]_vars

\* the live facade objects that hold a pointer to the object o
Referring(o) == { f \in 1..MaxFacades : Live(f) /\ facades[f].self = o }

\* C30: whatever the facade objects did, no underlying object was handed to
\* the C delete wrapper more than once, and an object that exists and that
\* no live facade object refers to any more was deleted
C30_DeletedExactlyOnce ==
  \A o \in 1..MaxObjs :
    /\ deleted[o] <= 1
    /\ o <= created /\ Referring(o) = {} => deleted[o] = 1

\* what the code does: an object is deleted once for every facade object
\* that owned it when destroyed, so never more often than facade objects
\* were destroyed, and an object that a live facade object owns was not
\* deleted by a move
C30_DeletedPerOwner ==
  \A o \in 1..MaxObjs :
    /\ deleted[o] <= Cardinality({ f \in 1..MaxFacades : facades[f].state = "dead" })
    /\ o > created => deleted[o] = 0
    /\ lastOp.op \in {"move_ctor", "move_assign", "ptr_return", "ref_return", "obj_return",
                      "construct"} => lastOp.deletes = 0

\* a pointer to an object that a facade object owns was returned and wrapped,
\* both facade objects were destroyed and the object was deleted twice
C30_DeletedTwice ==
  /\ \E o \in 1..MaxObjs : deleted[o] = 2
  /\ \A f \in 1..MaxFacades : facades[f].state = "dead"

\* a facade object that owned an object was assigned another one by a move,
\* both facade objects were destroyed and the first object was never deleted
C30_NeverDeleted ==
  /\ created = 2
  /\ \A f \in 1..2 : facades[f].state = "dead"
  /\ deleted[1] = 0 /\ deleted[2] = 1

====
